---- MODULE Spec2Model ----
(***************************************************************************)
(* A model of the DingTalk channel plugin (src/unnamed/part_000, the       *)
(* current channel.ts): the inbound message merge buffer and the           *)
(* interactive-card update throttle, with the helpers they call.           *)
(*                                                                         *)
(* Time is in milliseconds, as in the source.  `now` is Date.now().  The   *)
(* event loop is modelled with exact timers: time never advances past the  *)
(* deadline of an armed timer, and an armed timer whose deadline has been  *)
(* reached may run; timers that are due at the same instant, and other     *)
(* events of that instant, run in any order.                               *)
(***************************************************************************)
EXTENDS Integers, Sequences, FiniteSets, TLC

(***************************************************************************)
(* Program constants                                                       *)
(***************************************************************************)
CARD_UPDATE_MIN_INTERVAL == 500
CARD_UPDATE_TIMEOUT == 60000
CARD_CACHE_TTL == 3600000
CARD_CLEANUP_INTERVAL == 1800000
MESSAGE_MERGE_WINDOW_MS == 2000
MESSAGE_MERGE_MAX_MESSAGES == 5
MERGE_STALE_AGE_MS == 10000
MERGE_SWEEP_INTERVAL_MS == 300000

(***************************************************************************)
(* Bounds of the model                                                     *)
(***************************************************************************)
\* Date.now() when the module is loaded (any value above the intervals)
StartTime == 10000000
\* the step by which the clock advances between two events
TickStep == 300
\* such steps are taken during the first TickHorizon ms; after that, time
\* advances from one timer deadline to the next
TickHorizon == 300
\* the merge-cache sweep is followed during the first MergeSweepHorizon ms
MergeSweepHorizon == 300000
\* number of inbound events in one behaviour
MaxEvents == 6

\* cache keys `${accountId}:${senderId}:${conversationId}`
Keys == {"acct:alice:cidA", "acct:bob:cidB"}

\* The inbound events of a behaviour are numbered in arrival order.  Any of
\* them may come from the first sender with a text of its own; those in
\* OtherSenderEvents may come from the second sender instead, and those in
\* BlankEvents may carry a text of white space only.
OtherSenderEvents == {2, 3}

BlankEvents == {1, 2}

KeysOf(msgId) ==
    IF msgId \in OtherSenderEvents THEN Keys ELSE {"acct:alice:cidA"}

BlanksOf(msgId) == IF msgId \in BlankEvents THEN BOOLEAN ELSE {FALSE}

\* text contents, as sequences of characters; " " is white space

ContentOf(msgId, blank) == IF blank THEN <<" ">> ELSE <<" ", ToString(msgId), " ">>

\* data.sessionWebhook: every event carries a session webhook of its own
SessionWebhookOf(msgId) == <<"webhook", ToString(msgId)>>

\* Map.prototype.set and Map.prototype.delete, a Map being a function on its keys
MapSet(m, k, v) == [x \in DOMAIN m \cup {k} |-> IF x = k THEN v ELSE m[x]]

MapDelete(m, k) == [x \in DOMAIN m \ {k} |-> m[x]]

EmptyMap == [x \in {} |-> 0]

VARIABLES
    now,                \* Date.now()
    messageMergeCache,  \* Map cacheKey -> MergedMessageEntry
    mergeTimers,        \* the armed window timers (setTimeout handles)
    nextTimer,          \* next timer handle
    mergeSweepAt,       \* next run of the merge sweep interval
    nextMsgId,          \* next inbound message id
    inbound,            \* the non-self events handleDingTalkMessage took, in order
    pipelineCalls,      \* calls of handleDingTalkMessageOriginal, in order
    pipelineDone,       \* the calls among them that have returned or thrown
    accessToken,        \* the stored token (the call that fetched it), 0: none
    accessTokenExpiry,  \* expiry of the stored token
    cardInstances,      \* Map cardBizId -> CardInstance
    cardUpdateTimestamps, \* Map cardBizId -> time of the last update
    cardUpdateTimeouts, \* Map cardBizId -> timer handle
    cardTimers,         \* the armed timers of the card code (setTimeout handles)
    cleanupIntervalId,  \* next run of the card cache sweep, 0 once cleared
    calls,              \* Map call id -> the execution of an async card function
    nextCall,           \* next call id
    cardPuts,           \* the PUT requests sent to the card update API, in order
    stopped,            \* the gateway account's stopped flag
    run,                \* the execution of the pipeline or media function followed
    effects,            \* what that execution has done to the outside, in order
    files               \* the files on disk: path -> content and mtime

\* the state of the card code
cardVars == <<accessToken, accessTokenExpiry, cardInstances, cardUpdateTimestamps,
              cardUpdateTimeouts, cardTimers, cleanupIntervalId, calls, nextCall,
              cardPuts>>

\* the state of the merge buffer
mergeVars == <<messageMergeCache, mergeTimers, mergeSweepAt, nextMsgId, inbound,
               pipelineCalls, pipelineDone>>

\* the gateway flag and the execution followed step by step
chanVars == <<stopped, run, effects, files>>

vars == <<now, nextTimer, mergeVars, cardVars, chanVars>>

(***************************************************************************)
(* Text helpers                                                            *)
(***************************************************************************)
IsSpace(ch) == ch = " "

RECURSIVE TrimStart(_)
TrimStart(s) ==
    IF s # <<>> /\ IsSpace(Head(s)) THEN TrimStart(Tail(s)) ELSE s

RECURSIVE TrimEnd(_)
TrimEnd(s) ==
    IF s # <<>> /\ IsSpace(s[Len(s)]) THEN TrimEnd(SubSeq(s, 1, Len(s) - 1)) ELSE s

\* String.prototype.trim
Trim(s) == TrimEnd(TrimStart(s))

\* Array.prototype.join: the texts with sep between consecutive ones
RECURSIVE Join(_, _)
Join(texts, sep) ==
    IF texts = <<>> THEN <<>>
    ELSE IF Len(texts) = 1 THEN texts[1]
    ELSE texts[1] \o sep \o Join(Tail(texts), sep)

\* .filter(Boolean) on strings: drops the empty ones
FilterBoolean(texts) == SelectSeq(texts, LAMBDA t : t # <<>>)

BlankLine == <<"\n", "\n">>

MergedPlaceholder == <<"[merged message]">>

\* the text put in place of a picture
PictureText == <<"[picture]">>

\* the richText branch of extractMessageContent, for parts of type 'picture'
\* (a part without downloadCode, "", is skipped): the text so far and the
\* media files so far, part by part
RECURSIVE RichTextParts(_, _, _)
RichTextParts(parts, text, mediaFiles) ==
    IF parts = <<>> THEN [text |-> text, mediaFiles |-> mediaFiles]
    ELSE LET part == Head(parts)
         IN IF part.downloadCode # ""
            THEN RichTextParts(Tail(parts), text \o <<"[picture]", " ">>,
                     Append(mediaFiles,
                            [ downloadCode |-> part.downloadCode,
                              fileName |-> IF part.fileName # <<>> THEN part.fileName
                                           ELSE <<"image_", ToString(Len(mediaFiles) + 1)>>,
                              type |-> "image" ]))
            ELSE RichTextParts(Tail(parts), text, mediaFiles)

\* extractMessageContent for the message types of the model: 'richText',
\* 'picture', and 'text' (also when msgtype is not set):
\* data.text.content.trim() || ''; mediaPath "" stands for undefined
extractMessageContent(data) ==
    IF "msgtype" \in DOMAIN data /\ data.msgtype = "richText"
    THEN LET r == RichTextParts(data.richText, <<>>, <<>>)
         IN [ text |-> IF Trim(r.text) # <<>> THEN Trim(r.text) ELSE <<"[richText]">>,
              messageType |-> "richText",
              mediaPath |-> IF r.mediaFiles = <<>> THEN ""
                            ELSE r.mediaFiles[1].downloadCode,
              mediaType |-> IF r.mediaFiles = <<>> THEN "" ELSE r.mediaFiles[1].type,
              mediaFiles |-> r.mediaFiles ]
    ELSE IF "msgtype" \in DOMAIN data /\ data.msgtype = "picture"
    THEN [text |-> PictureText, messageType |-> "picture",
          mediaPath |-> data.downloadCode, mediaType |-> "image"]
    ELSE [text |-> Trim(data.content), messageType |-> "text",
          mediaPath |-> "", mediaType |-> ""]

(***************************************************************************)
(* Timers                                                                  *)
(***************************************************************************)
\* (mutant) clearTimeout leaves the handle armed
clearTimeout_LeavesArmed(timers, id) == timers

\* clearTimeout: the handle is disarmed (a handle that already ran or was
\* cleared is left alone)
clearTimeout(timers, id) == { t \in timers : t.id # id }

SetMin(S) == CHOOSE x \in S : \A y \in S : x <= y

(***************************************************************************)
(* The merge buffer                                                        *)
(***************************************************************************)
\* (mutant) the texts are joined last message first
MergedText_LastFirst(messages) ==
    Join(FilterBoolean([i \in 1..Len(messages) |->
                          messages[Len(messages) + 1 - i].content.text]),
         BlankLine)

\* mergedText of processMergedMessages
MergedText(messages) ==
    Join(FilterBoolean([i \in 1..Len(messages) |-> messages[i].content.text]),
         BlankLine)

\* allMediaFiles of processMergedMessages: the mediaFiles of every message
\* that has some, or else the reference made from its mediaPath, in order
RECURSIVE allMediaFiles(_)
allMediaFiles(messages) ==
    IF messages = <<>> THEN <<>>
    ELSE LET m == Head(messages)
         IN (IF "mediaFiles" \in DOMAIN m.content /\ Len(m.content.mediaFiles) > 0
             THEN m.content.mediaFiles
             ELSE IF m.content.mediaPath # ""
             THEN << [ downloadCode |-> m.content.mediaPath,
                       fileName |-> <<"media_", ToString(m.data.msgId)>>,
                       type |-> IF m.content.mediaType = "image"
                                THEN "image" ELSE "file" ] >>
             ELSE <<>>)
            \o allMediaFiles(Tail(messages))

\* new Map(pairs): a Map is kept as the sequence of its entries in insertion
\* order; setting a key that is present replaces the value in place
RECURSIVE NewMap(_, _)
NewMap(map, pairs) ==
    IF pairs = <<>> THEN map
    ELSE LET p == Head(pairs)
             at == { i \in 1..Len(map) : map[i].key = p.key }
         IN NewMap(IF at = {} THEN Append(map, p)
                   ELSE [map EXCEPT ![CHOOSE i \in at : TRUE] = p],
                   Tail(pairs))

\* uniqueMediaFiles of processMergedMessages:
\* Array.from(new Map(allMediaFiles.map(m => [m.downloadCode, m])).values())
uniqueMediaFiles(all) ==
    LET map == NewMap(<<>>, [i \in 1..Len(all) |->
                               [key |-> all[i].downloadCode, value |-> all[i]]])
    IN [i \in 1..Len(map) |-> map[i].value]

\* (mutant) the data of the event that triggered the flush is passed on
processMergedMessages_TriggerData(cacheKey, entry, params, via) ==
    LET mergedText == MergedText(entry.messages)
    IN [ key      |-> cacheKey,
         data     |-> params,
         text     |-> IF mergedText # <<>> THEN mergedText ELSE MergedPlaceholder,
         mediaFiles |-> uniqueMediaFiles(allMediaFiles(entry.messages)),
         messages |-> entry.messages,
         params   |-> params.msgId,
         sessionWebhook |-> params.sessionWebhook,
         via      |-> via,
         at       |-> now ]

\* processMergedMessages: the call of handleDingTalkMessageOriginal it makes
processMergedMessages(cacheKey, entry, params, via) ==
    LET mergedText == MergedText(entry.messages)
        firstMessage == entry.messages[1]
    IN [ key      |-> cacheKey,
         data     |-> firstMessage.data,
         text     |-> IF mergedText # <<>> THEN mergedText ELSE MergedPlaceholder,
         mediaFiles |-> uniqueMediaFiles(allMediaFiles(entry.messages)),
         messages |-> entry.messages,
         params   |-> params.msgId,
         sessionWebhook |-> params.sessionWebhook,
         via      |-> via,
         at       |-> now ]

\* handleDingTalkMessage, when the event is the robot's own message
InboundSelf(k, c) ==
    /\ nextMsgId <= MaxEvents
    /\ UNCHANGED vars

\* (mutant) the cap flush forgets clearTimeout(existingEntry.timer)
AppendToEntry_KeepsTimer(k, data) ==
    LET existingEntry == messageMergeCache[k]
        content == extractMessageContent(data)
        pushed == [existingEntry EXCEPT
                     !.messages = Append(@, [content |-> content, data |-> data,
                                             timestamp |-> now])]
    IN IF Len(pushed.messages) >= MESSAGE_MERGE_MAX_MESSAGES
       THEN /\ messageMergeCache' = MapDelete(messageMergeCache, k)
            /\ pipelineCalls' =
                 Append(pipelineCalls, processMergedMessages(k, pushed, data, "max"))
            /\ UNCHANGED mergeTimers
       ELSE /\ messageMergeCache' = MapSet(messageMergeCache, k, pushed)
            /\ UNCHANGED <<mergeTimers, pipelineCalls>>

\* handleDingTalkMessage for a non-self event: existing entry
AppendToEntry(k, data) ==
    LET existingEntry == messageMergeCache[k]
        content == extractMessageContent(data)
        pushed == [existingEntry EXCEPT
                     !.messages = Append(@, [content |-> content, data |-> data,
                                             timestamp |-> now])]
    IN IF Len(pushed.messages) >= MESSAGE_MERGE_MAX_MESSAGES
       THEN /\ mergeTimers' = clearTimeout(mergeTimers, existingEntry.timer)
            /\ messageMergeCache' = MapDelete(messageMergeCache, k)
            /\ pipelineCalls' =
                 Append(pipelineCalls, processMergedMessages(k, pushed, data, "max"))
       ELSE /\ messageMergeCache' = MapSet(messageMergeCache, k, pushed)
            /\ UNCHANGED <<mergeTimers, pipelineCalls>>

\* (mutant) the window timer is armed for twice the merge window
StartWindow_LongTimer(k, data) ==
    LET content == extractMessageContent(data)
        entry == [ messages  |-> << [content |-> content, data |-> data,
                                     timestamp |-> now] >>,
                   timer     |-> nextTimer,
                   startTime |-> now ]
    IN /\ mergeTimers' = mergeTimers \cup
            { [id |-> nextTimer, cacheKey |-> k, params |-> data,
               at |-> now + 2 * MESSAGE_MERGE_WINDOW_MS] }
       /\ messageMergeCache' = MapSet(messageMergeCache, k, entry)
       /\ UNCHANGED pipelineCalls

\* handleDingTalkMessage for a non-self event: first message of a window
StartWindow(k, data) ==
    LET content == extractMessageContent(data)
        entry == [ messages  |-> << [content |-> content, data |-> data,
                                     timestamp |-> now] >>,
                   timer     |-> nextTimer,
                   startTime |-> now ]
    IN /\ mergeTimers' = mergeTimers \cup
            { [id |-> nextTimer, cacheKey |-> k, params |-> data,
               at |-> now + MESSAGE_MERGE_WINDOW_MS] }
       /\ messageMergeCache' = MapSet(messageMergeCache, k, entry)
       /\ UNCHANGED pipelineCalls

\* (mutant) a sliding window: an appended event re-arms the entry's timer
handleDingTalkMessage_Sliding(k, blank) ==
    /\ nextMsgId <= MaxEvents
    /\ LET data == [msgId |-> nextMsgId, key |-> k, createAt |-> now,
                    sessionWebhook |-> SessionWebhookOf(nextMsgId),
                    content |-> ContentOf(nextMsgId, blank)]
       IN /\ IF k \in DOMAIN messageMergeCache
             THEN /\ messageMergeCache' =
                       MapSet(messageMergeCache, k,
                              [messageMergeCache[k] EXCEPT
                                 !.messages = Append(@, [content |-> extractMessageContent(data),
                                                         data |-> data, timestamp |-> now])])
                  /\ mergeTimers' =
                       { IF t.cacheKey = k
                         THEN [t EXCEPT !.at = now + MESSAGE_MERGE_WINDOW_MS] ELSE t
                         : t \in mergeTimers }
                  /\ UNCHANGED <<nextTimer, pipelineCalls>>
             ELSE StartWindow(k, data) /\ nextTimer' = nextTimer + 1
          /\ inbound' = Append(inbound, [data |-> data, at |-> now])
    /\ nextMsgId' = nextMsgId + 1
    /\ UNCHANGED <<now, mergeSweepAt, pipelineDone, cardVars, chanVars>>

handleDingTalkMessage(k, blank) ==
    /\ nextMsgId <= MaxEvents
    /\ LET data == [msgId |-> nextMsgId, key |-> k, createAt |-> now,
                    sessionWebhook |-> SessionWebhookOf(nextMsgId),
                    content |-> ContentOf(nextMsgId, blank)]
       IN /\ IF k \in DOMAIN messageMergeCache
             THEN AppendToEntry(k, data) /\ UNCHANGED nextTimer
             ELSE StartWindow(k, data) /\ nextTimer' = nextTimer + 1
          /\ inbound' = Append(inbound, [data |-> data, at |-> now])
    /\ nextMsgId' = nextMsgId + 1
    /\ UNCHANGED <<now, mergeSweepAt, pipelineDone, cardVars, chanVars>>

\* (mutant) the timer callback forgets messageMergeCache.delete(cacheKey)
MergeTimerFires_KeepsEntry(t) ==
    /\ t \in mergeTimers
    /\ now >= t.at
    /\ mergeTimers' = mergeTimers \ {t}
    /\ IF /\ t.cacheKey \in DOMAIN messageMergeCache
          /\ Len(messageMergeCache[t.cacheKey].messages) > 0
       THEN pipelineCalls' =
                 Append(pipelineCalls,
                        processMergedMessages(t.cacheKey, messageMergeCache[t.cacheKey],
                                              t.params, "timer"))
       ELSE UNCHANGED pipelineCalls
    /\ UNCHANGED <<now, messageMergeCache, nextTimer, mergeSweepAt, nextMsgId, inbound,
                   pipelineDone, cardVars, chanVars>>

\* the callback of entry.timer
MergeTimerFires(t) ==
    /\ t \in mergeTimers
    /\ now >= t.at
    /\ mergeTimers' = mergeTimers \ {t}
    /\ IF /\ t.cacheKey \in DOMAIN messageMergeCache
          /\ Len(messageMergeCache[t.cacheKey].messages) > 0
       THEN /\ messageMergeCache' = MapDelete(messageMergeCache, t.cacheKey)
            /\ pipelineCalls' =
                 Append(pipelineCalls,
                        processMergedMessages(t.cacheKey, messageMergeCache[t.cacheKey],
                                              t.params, "timer"))
       ELSE UNCHANGED <<messageMergeCache, pipelineCalls>>
    /\ UNCHANGED <<now, nextTimer, mergeSweepAt, nextMsgId, inbound, pipelineDone,
                   cardVars, chanVars>>

\* the sweep interval, while the model follows it
MergeSweepArmed == mergeSweepAt <= StartTime + MergeSweepHorizon

\* entries the sweep removes
StaleKeys == { k \in DOMAIN messageMergeCache :
                 now - messageMergeCache[k].startTime > MERGE_STALE_AGE_MS }

\* (mutant) the sweep forgets clearTimeout(entry.timer)
MergeSweep_KeepsTimer ==
    /\ MergeSweepArmed
    /\ now >= mergeSweepAt
    /\ messageMergeCache' = [k \in DOMAIN messageMergeCache \ StaleKeys |->
                               messageMergeCache[k]]
    /\ mergeSweepAt' = mergeSweepAt + MERGE_SWEEP_INTERVAL_MS
    /\ UNCHANGED <<now, nextTimer, mergeTimers, nextMsgId, inbound, pipelineCalls,
                   pipelineDone, cardVars, chanVars>>

\* the setInterval callback that cleans the merge cache
MergeSweep ==
    /\ MergeSweepArmed
    /\ now >= mergeSweepAt
    /\ mergeTimers' = { t \in mergeTimers :
                          \A k \in StaleKeys : t.id # messageMergeCache[k].timer }
    /\ messageMergeCache' = [k \in DOMAIN messageMergeCache \ StaleKeys |->
                               messageMergeCache[k]]
    /\ mergeSweepAt' = mergeSweepAt + MERGE_SWEEP_INTERVAL_MS
    /\ UNCHANGED <<now, nextTimer, nextMsgId, inbound, pipelineCalls, pipelineDone,
                   cardVars, chanVars>>

\* deadlines of the merge buffer's timers
MergeDeadlines ==
    { t.at : t \in mergeTimers } \cup
    (IF MergeSweepArmed THEN {mergeSweepAt} ELSE {})

\* time passes by one step, not beyond the next deadline
MergeTick ==
    /\ now + TickStep <= StartTime + TickHorizon
    /\ \A d \in MergeDeadlines : now + TickStep <= d
    /\ now' = now + TickStep
    /\ UNCHANGED <<nextTimer, mergeVars, cardVars, chanVars>>

\* nothing happens until the next deadline
MergeIdle ==
    /\ MergeDeadlines # {}
    /\ SetMin(MergeDeadlines) > now
    /\ now' = SetMin(MergeDeadlines)
    /\ UNCHANGED <<nextTimer, mergeVars, cardVars, chanVars>>

\* the module's state once it is loaded
Init ==
    /\ now = StartTime
    /\ messageMergeCache = EmptyMap
    /\ mergeTimers = {}
    /\ nextTimer = 1
    /\ mergeSweepAt = StartTime + MERGE_SWEEP_INTERVAL_MS
    /\ nextMsgId = 1
    /\ inbound = <<>>
    /\ pipelineCalls = <<>>
    /\ pipelineDone = {}
    /\ accessToken = 0
    /\ accessTokenExpiry = 0
    /\ cardInstances = EmptyMap
    /\ cardUpdateTimestamps = EmptyMap
    /\ cardUpdateTimeouts = EmptyMap
    /\ cardTimers = {}
    /\ cleanupIntervalId = StartTime + CARD_CLEANUP_INTERVAL
    /\ calls = EmptyMap
    /\ nextCall = 1
    /\ cardPuts = <<>>
    /\ stopped = FALSE
    /\ run = [pc |-> "idle"]
    /\ effects = <<>>
    /\ files = EmptyMap

MergeInit == Init

MergeNext ==
    \/ \E k \in KeysOf(nextMsgId), b \in BlanksOf(nextMsgId) : InboundSelf(k, b)
    \/ \E k \in KeysOf(nextMsgId), b \in BlanksOf(nextMsgId) :
          handleDingTalkMessage(k, b)
    \/ \E t \in mergeTimers : MergeTimerFires(t)
    \/ MergeSweep
    \/ MergeTick
    \/ MergeIdle

MergeSpec == MergeInit /\ [][MergeNext]_vars

(***************************************************************************)
(* Properties of the merge buffer                                          *)
(***************************************************************************)
MsgIds(messages) == [j \in 1..Len(messages) |-> messages[j].data.msgId]

InSeq(x, seq) == \E j \in 1..Len(seq) : seq[j] = x

\* the pipeline calls that carry event i
CallsWith(i) == { c \in 1..Len(pipelineCalls) : InSeq(i, MsgIds(pipelineCalls[c].messages)) }

Buffered(i) == \E k \in DOMAIN messageMergeCache :
                  InSeq(i, MsgIds(messageMergeCache[k].messages))

SameKey(i, j) == inbound[i].data.key = inbound[j].data.key

\* event i arrives when every earlier event of its key is more than a window old
FreshStart(i) ==
    \A j \in 1..(i - 1) :
        SameKey(i, j) => inbound[j].at + MESSAGE_MERGE_WINDOW_MS < inbound[i].at

\* the events of i's key that arrive within the window that i opens
Burst(i) ==
    SelectSeq([j \in 1..Len(inbound) |-> j],
              LAMBDA j : /\ j >= i
                         /\ SameKey(i, j)
                         /\ inbound[j].at < inbound[i].at + MESSAGE_MERGE_WINDOW_MS)

\* no event of i's key arrives at the very instant i's window ends
NoneAtWindowEnd(i) ==
    \A j \in 1..Len(inbound) :
        SameKey(i, j) => inbound[j].at # inbound[i].at + MESSAGE_MERGE_WINDOW_MS

\* the texts of the events, as extractMessageContent gives them
TextsOf(ids) == [n \in 1..Len(ids) |-> Trim(inbound[ids[n]].data.content)]

\* the events of a burst went to the pipeline in one call, with this text
DeliveredOnce(i, text) ==
    /\ Cardinality(CallsWith(i)) = 1
    /\ \A c \in CallsWith(i) :
          /\ MsgIds(pipelineCalls[c].messages) = Burst(i)
          /\ pipelineCalls[c].text = text
    /\ \A n \in 1..Len(Burst(i)) : CallsWith(Burst(i)[n]) = CallsWith(i)

\* C1 as stated: the events of one key that arrive within one merge window
\* (2000 ms) of the first of them, however many they are, go to the pipeline
\* in exactly one call, whose text is their texts in arrival order with a
\* blank line between them (read in the claim's favour where every text is
\* blank: the text the merge gives then is accepted).
C1_OneCallPerWindow ==
    \A i \in 1..Len(inbound) :
        (FreshStart(i) /\ NoneAtWindowEnd(i) /\ ~Buffered(i))
            => LET joined == Join(FilterBoolean(TextsOf(Burst(i))), BlankLine)
               IN DeliveredOnce(i, IF joined # <<>> THEN joined ELSE MergedPlaceholder)

\* C1 amended: at most 5 events (the cap) of one key that arrive within one
\* merge window of the first of them go to the pipeline in exactly one call;
\* its text is their non-blank trimmed texts in arrival order with a blank line
\* between them, or the placeholder when every text is blank.
C1_OneCallPerWindowUpToCap ==
    \A i \in 1..Len(inbound) :
        ( /\ FreshStart(i) /\ NoneAtWindowEnd(i) /\ ~Buffered(i)
          /\ Len(Burst(i)) <= MESSAGE_MERGE_MAX_MESSAGES )
            => LET joined == Join(FilterBoolean(TextsOf(Burst(i))), BlankLine)
               IN DeliveredOnce(i, IF joined # <<>> THEN joined ELSE MergedPlaceholder)

\* two events with texts of their own, 300 ms apart, were merged into one call
C1_Witness ==
    \E c \in 1..Len(pipelineCalls) :
        /\ Len(pipelineCalls[c].messages) = 2
        /\ pipelineCalls[c].via = "timer"
        /\ pipelineCalls[c].messages[2].timestamp
             = pipelineCalls[c].messages[1].timestamp + TickStep
        /\ pipelineCalls[c].text =
             <<ToString(pipelineCalls[c].messages[1].data.msgId)>> \o BlankLine
               \o <<ToString(pipelineCalls[c].messages[2].data.msgId)>>
        /\ FreshStart(pipelineCalls[c].messages[1].data.msgId)

\* C2: a call made because the cap was reached carries the 5 events of the
\* entry and is made at the instant the 5th arrives; the entry is gone (no entry
\* holds 5 messages), its timer is disarmed (every armed window timer is the
\* timer of the entry now under its key), and no event is in two calls.
C2_CapFlushesAtOnce ==
    /\ \A c \in 1..Len(pipelineCalls) :
          pipelineCalls[c].via = "max" =>
              /\ Len(pipelineCalls[c].messages) = MESSAGE_MERGE_MAX_MESSAGES
              /\ pipelineCalls[c].at =
                   pipelineCalls[c].messages[MESSAGE_MERGE_MAX_MESSAGES].timestamp
    /\ \A k \in DOMAIN messageMergeCache :
          Len(messageMergeCache[k].messages) < MESSAGE_MERGE_MAX_MESSAGES
    /\ \A t \in mergeTimers :
          /\ t.cacheKey \in DOMAIN messageMergeCache
          /\ messageMergeCache[t.cacheKey].timer = t.id
    /\ \A i \in 1..Len(inbound) : Cardinality(CallsWith(i)) <= 1

\* the cap was reached before the window of the entry had elapsed, and a later
\* event of the key is waiting in a new entry
C2_Witness ==
    \E c \in 1..Len(pipelineCalls) :
        /\ pipelineCalls[c].via = "max"
        /\ pipelineCalls[c].at <
             pipelineCalls[c].messages[1].timestamp + MESSAGE_MERGE_WINDOW_MS
        /\ pipelineCalls[c].key \in DOMAIN messageMergeCache
        /\ now > pipelineCalls[c].messages[1].timestamp + MESSAGE_MERGE_WINDOW_MS

\* event i has no other event of its key within a window of it
Isolated(i) ==
    \A j \in 1..Len(inbound) :
        (j # i /\ SameKey(i, j)) =>
            \/ inbound[j].at + MESSAGE_MERGE_WINDOW_MS < inbound[i].at
            \/ inbound[i].at + MESSAGE_MERGE_WINDOW_MS < inbound[j].at

\* C3: an event that is more than a window (2000 ms) away from the events of
\* its key before and after it starts a window of its own and goes to the
\* pipeline in one call that carries that event alone.
C3_SpacedEventsAlone ==
    \A i \in 1..Len(inbound) :
        (Isolated(i) /\ ~Buffered(i)) =>
            /\ Cardinality(CallsWith(i)) = 1
            /\ \A c \in CallsWith(i) :
                  /\ MsgIds(pipelineCalls[c].messages) = <<i>>
                  /\ pipelineCalls[c].via = "timer"
                  /\ pipelineCalls[c].at = inbound[i].at + MESSAGE_MERGE_WINDOW_MS

\* two events of one key, more than a window apart, each delivered alone
C3_Witness ==
    \E i, j \in 1..Len(inbound) :
        /\ i < j
        /\ SameKey(i, j)
        /\ inbound[i].at + MESSAGE_MERGE_WINDOW_MS < inbound[j].at
        /\ Isolated(i) /\ Isolated(j)
        /\ ~Buffered(i) /\ ~Buffered(j)

\* the armed window timers of a key
TimersOf(k) == { t \in mergeTimers : t.cacheKey = k }

\* C4: a key never has two open windows (one entry, at most one armed window
\* timer); a step that flushes a key leaves it without an entry, and a key
\* gets an entry only in a step that takes an inbound event of that key.
C4_OneEntryPerKey ==
    [][ /\ \A k \in Keys : Cardinality(TimersOf(k)') <= 1
        /\ Len(pipelineCalls') > Len(pipelineCalls) =>
              pipelineCalls'[Len(pipelineCalls')].key \notin DOMAIN messageMergeCache'
        /\ \A k \in DOMAIN messageMergeCache' \ DOMAIN messageMergeCache :
              /\ Len(inbound') = Len(inbound) + 1
              /\ inbound'[Len(inbound')].data.key = k
              /\ MsgIds(messageMergeCache'[k].messages) = <<Len(inbound')>> ]_vars

\* a key was flushed by the cap, got a new entry from a later event, was
\* flushed again by the timer of that entry, and now has no entry
C4_Witness ==
    \E c, d \in 1..Len(pipelineCalls) :
        /\ c < d
        /\ pipelineCalls[c].via = "max"
        /\ pipelineCalls[d].via = "timer"
        /\ pipelineCalls[d].key = pipelineCalls[c].key
        /\ pipelineCalls[d].key \notin DOMAIN messageMergeCache


(***************************************************************************)
(* Interactive cards: token, create, update, throttle, cache sweep         *)
(***************************************************************************)
\* the margin getAccessToken keeps before the expiry of a cached token
TOKEN_EXPIRY_MARGIN_MS == 60000

\* retryWithBackoff's maxRetries and baseDelayMs
MAX_RETRIES == 3

BASE_DELAY_MS == 100

\* bounds of the card model
MaxCalls == 3

CardTickHorizon == 300

CardSweepHorizon == 5400000

\* the cardBizIds randomUUID may return
Cards == {"card_1"}

\* HTTP outcomes: 200, or the status of the error (0: an error without response)
ErrorStatuses == {0, 404, 429}

\* expireIn of a token response, in seconds
ExpireIns == {7200}

\* (mutant) 404 is retried as well
isRetryable_AlsoNotFound(statusCode) ==
    \/ statusCode = 401
    \/ statusCode = 404
    \/ statusCode = 429
    \/ (statusCode # 0 /\ statusCode >= 500)

\* isRetryable of retryWithBackoff
isRetryable(statusCode) ==
    \/ statusCode = 401
    \/ statusCode = 429
    \/ (statusCode # 0 /\ statusCode >= 500)

\* the statuses retryWithBackoff throws at once
FinalStatuses == { sc \in ErrorStatuses : ~isRetryable(sc) }

\* 2^n
RECURSIVE Pow2(_)
Pow2(n) == IF n = 0 THEN 1 ELSE 2 * Pow2(n - 1)

\* delayMs of retryWithBackoff after a failed attempt
delayMs(attempt) == BASE_DELAY_MS * Pow2(attempt - 1)

\* (mutant) a cached token is used until it expires
TokenCached_NoMargin == accessToken # 0 /\ accessTokenExpiry > now

\* getAccessToken's test of the cached token
TokenCached == accessToken # 0 /\ accessTokenExpiry > now + TOKEN_EXPIRY_MARGIN_MS

\* a new execution of sendInteractiveCard or updateInteractiveCardThrottled
NewCall(op, c, path, lastUpdate) ==
    [ op |-> op, card |-> c, text |-> nextCall, path |-> path, issuedAt |-> now,
      lastUpdate |-> lastUpdate, slot |-> 0, pc |-> "new", attempt |-> 0,
      tokenNow |-> 0, startedAt |-> 0, doneAt |-> 0, status |-> 0,
      cleared |-> "", posts |-> 0, token |-> 0 ]

\* entry of sendInteractiveCard / updateInteractiveCard: getAccessToken, and
\* with a cached token the first request of retryWithBackoff in the same turn
Enter(rec) ==
    IF TokenCached
    THEN [rec EXCEPT !.pc = "http", !.attempt = 1, !.startedAt = now,
                     !.token = accessToken]
    ELSE [rec EXCEPT !.pc = "token", !.attempt = 1, !.startedAt = now,
                     !.tokenNow = now, !.posts = 1]

\* the log of PUT requests once call id, now in state rec, has sent a request
Sent(id, rec) ==
    IF rec.op = "update" /\ rec.pc = "http"
    THEN Append(cardPuts, [card |-> rec.card, call |-> id, text |-> rec.text,
                           attempt |-> rec.attempt, at |-> now])
    ELSE cardPuts

\* clearTimeout on the card timers; a cleared scheduled update is marked
ClearedBy(cs, ids, who) ==
    [id \in DOMAIN cs |->
        IF \E t \in cardTimers : t.id \in ids /\ t.kind = "scheduled" /\ t.call = id
        THEN [cs[id] EXCEPT !.cleared = who]
        ELSE cs[id]]

\* sendInteractiveCard up to its first await that leaves the turn
sendInteractiveCard(c) ==
    /\ \A id \in DOMAIN calls : calls[id].card # c
    /\ LET rec == Enter(NewCall("send", c, "send", 0))
       IN /\ calls' = MapSet(calls, nextCall, rec)
          /\ cardPuts' = Sent(nextCall, rec)
    /\ nextCall' = nextCall + 1
    /\ UNCHANGED <<now, nextTimer, mergeVars, accessToken, accessTokenExpiry,
                   cardInstances, cardUpdateTimestamps, cardUpdateTimeouts,
                   cardTimers, cleanupIntervalId, chanVars>>


\* the cardBizIds a caller holds: those a sendInteractiveCard returned
IssuedCards == { calls[id].card : id \in { i \in DOMAIN calls :
                     calls[i].op = "send" /\ calls[i].pc = "resolved" } }

\* updateInteractiveCard called directly (as deliver does), up to its first
\* await that leaves the turn
updateInteractiveCard(c) ==
    /\ c \in IssuedCards
    /\ LET rec == Enter(NewCall("update", c, "direct", 0))
       IN /\ calls' = MapSet(calls, nextCall, rec)
          /\ cardPuts' = Sent(nextCall, rec)
    /\ nextCall' = nextCall + 1
    /\ UNCHANGED <<now, nextTimer, mergeVars, accessToken, accessTokenExpiry,
                   cardInstances, cardUpdateTimestamps, cardUpdateTimeouts,
                   cardTimers, cleanupIntervalId, chanVars>>

\* lastUpdate of updateInteractiveCardThrottled
lastUpdateOf(c) == IF c \in DOMAIN cardUpdateTimestamps
                   THEN cardUpdateTimestamps[c] ELSE 0

\* the handle clearTimeout(existingTimeout) is called with
existingTimeout(c) == IF c \in DOMAIN cardUpdateTimeouts
                      THEN {cardUpdateTimeouts[c]} ELSE {}

\* (mutant) the immediate path needs more than the minimum interval
UpdateImmediately_Strict(timeSinceLastUpdate) ==
    timeSinceLastUpdate > CARD_UPDATE_MIN_INTERVAL

\* the test for the immediate path
UpdateImmediately(timeSinceLastUpdate) ==
    timeSinceLastUpdate >= CARD_UPDATE_MIN_INTERVAL

\* (mutant) the scheduled update waits a whole interval from the request
delay_FromRequest(timeSinceLastUpdate) == CARD_UPDATE_MIN_INTERVAL

\* delay of the scheduled update
delay(timeSinceLastUpdate) == CARD_UPDATE_MIN_INTERVAL - timeSinceLastUpdate

\* updateInteractiveCardThrottled up to its first await that leaves the turn
updateInteractiveCardThrottled(c) ==
    /\ Cardinality({id \in DOMAIN calls : calls[id].op = "update"}) < MaxCalls
    /\ c \in IssuedCards
    /\ LET lastUpdate == lastUpdateOf(c)
           timeSinceLastUpdate == now - lastUpdate
           cleared == ClearedBy(calls, existingTimeout(c), "call")
           timersLeft == { t \in cardTimers : t.id \notin existingTimeout(c) }
       IN IF UpdateImmediately(timeSinceLastUpdate)
          THEN LET rec == Enter(NewCall("update", c, "immediate", lastUpdate))
               IN /\ cardUpdateTimestamps' = MapSet(cardUpdateTimestamps, c, now)
                  /\ calls' = MapSet(cleared, nextCall, rec)
                  /\ cardPuts' = Sent(nextCall, rec)
                  /\ cardTimers' = timersLeft
                  /\ UNCHANGED <<cardUpdateTimeouts, nextTimer>>
          ELSE LET at == now + delay(timeSinceLastUpdate)
                   rec == [NewCall("update", c, "scheduled", lastUpdate)
                             EXCEPT !.pc = "scheduled", !.slot = at]
               IN /\ cardTimers' = timersLeft \cup
                        { [id |-> nextTimer, kind |-> "scheduled", card |-> c,
                           call |-> nextCall, at |-> at] }
                  /\ cardUpdateTimeouts' = MapSet(cardUpdateTimeouts, c, nextTimer)
                  /\ calls' = MapSet(cleared, nextCall, rec)
                  /\ nextTimer' = nextTimer + 1
                  /\ UNCHANGED <<cardUpdateTimestamps, cardPuts>>
    /\ nextCall' = nextCall + 1
    /\ UNCHANGED <<now, mergeVars, accessToken, accessTokenExpiry, cardInstances,
                   cleanupIntervalId, chanVars>>

\* the callback of the scheduled update, up to its first await that leaves the turn
ScheduledUpdateFires(t) ==
    /\ t \in cardTimers
    /\ t.kind = "scheduled"
    /\ now >= t.at
    /\ cardTimers' = cardTimers \ {t}
    /\ cardUpdateTimestamps' = MapSet(cardUpdateTimestamps, t.card, now)
    /\ LET rec == Enter(calls[t.call])
       IN /\ calls' = MapSet(calls, t.call, rec)
          /\ cardPuts' = Sent(t.call, rec)
    /\ UNCHANGED <<now, nextTimer, mergeVars, accessToken, accessTokenExpiry,
                   cardInstances, cardUpdateTimeouts, cleanupIntervalId, nextCall, chanVars>>

\* (mutant) the inactivity callback also drops the card from the registry
InactivityFires_DropsCard(t) ==
    /\ t \in cardTimers
    /\ t.kind = "inactivity"
    /\ now >= t.at
    /\ cardTimers' = cardTimers \ {t}
    /\ cardUpdateTimeouts' = MapDelete(cardUpdateTimeouts, t.card)
    /\ cardInstances' = MapDelete(cardInstances, t.card)
    /\ UNCHANGED <<now, nextTimer, mergeVars, accessToken, accessTokenExpiry,
                   cardUpdateTimestamps, cleanupIntervalId, calls,
                   nextCall, cardPuts, chanVars>>

\* the callback of the inactivity timeout
InactivityFires(t) ==
    /\ t \in cardTimers
    /\ t.kind = "inactivity"
    /\ now >= t.at
    /\ cardTimers' = cardTimers \ {t}
    /\ cardUpdateTimeouts' = MapDelete(cardUpdateTimeouts, t.card)
    /\ UNCHANGED <<now, nextTimer, mergeVars, accessToken, accessTokenExpiry,
                   cardInstances, cardUpdateTimestamps, cleanupIntervalId, calls,
                   nextCall, cardPuts, chanVars>>

\* retryWithBackoff after a failed attempt: wait and retry, or throw
Failed(id, statusCode, backoffPc) ==
    LET rec == calls[id]
    IN IF isRetryable(statusCode) /\ rec.attempt # MAX_RETRIES
       THEN /\ calls' = MapSet(calls, id, [rec EXCEPT !.pc = backoffPc,
                                                      !.status = statusCode])
            /\ cardTimers' = cardTimers \cup
                 { [id |-> nextTimer, kind |-> "backoff", card |-> rec.card,
                    call |-> id, at |-> now + delayMs(rec.attempt)] }
            /\ nextTimer' = nextTimer + 1
       ELSE /\ calls' = MapSet(calls, id, [rec EXCEPT !.pc = "rejected",
                                                      !.status = statusCode,
                                                      !.doneAt = now])
            /\ UNCHANGED <<cardTimers, nextTimer>>

\* getAccessToken called on its own: the cached token is returned in the same
\* turn, or the token request of retryWithBackoff's first attempt is sent
getAccessToken ==
    /\ LET rec == NewCall("token", "", "token", 0)
       IN calls' = MapSet(calls, nextCall,
                     IF TokenCached
                     THEN [rec EXCEPT !.pc = "resolved", !.token = accessToken,
                                      !.status = 200, !.doneAt = now]
                     ELSE [rec EXCEPT !.pc = "token", !.attempt = 1,
                                      !.startedAt = now, !.tokenNow = now,
                                      !.posts = 1])
    /\ nextCall' = nextCall + 1
    /\ UNCHANGED <<now, nextTimer, mergeVars, accessToken, accessTokenExpiry,
                   cardInstances, cardUpdateTimestamps, cardUpdateTimeouts,
                   cardTimers, cleanupIntervalId, cardPuts, chanVars>>

\* getAccessToken: the token request succeeds; the caller goes on in the same turn
TokenResponseOk(id, expireIn) ==
    /\ id \in DOMAIN calls
    /\ calls[id].pc = "token"
    /\ accessToken' = id
    /\ accessTokenExpiry' = calls[id].tokenNow + expireIn * 1000
    /\ LET rec == IF calls[id].op = "token"
                  THEN [calls[id] EXCEPT !.pc = "resolved", !.token = id,
                                         !.status = 200, !.doneAt = now]
                  ELSE [calls[id] EXCEPT !.pc = "http", !.attempt = 1, !.token = id]
       IN /\ calls' = MapSet(calls, id, rec)
          /\ cardPuts' = Sent(id, rec)
    /\ UNCHANGED <<now, nextTimer, mergeVars, cardInstances, cardUpdateTimestamps,
                   cardUpdateTimeouts, cardTimers, cleanupIntervalId, nextCall, chanVars>>

\* getAccessToken: the token request fails
TokenResponseError(id, statusCode) ==
    /\ id \in DOMAIN calls
    /\ calls[id].pc = "token"
    /\ Failed(id, statusCode, "tokenBackoff")
    /\ UNCHANGED <<now, mergeVars, accessToken, accessTokenExpiry, cardInstances,
                   cardUpdateTimestamps, cardUpdateTimeouts, cleanupIntervalId,
                   nextCall, cardPuts, chanVars>>

\* the wait of retryWithBackoff ends: the next attempt is sent
BackoffFires(t) ==
    /\ t \in cardTimers
    /\ t.kind = "backoff"
    /\ now >= t.at
    /\ cardTimers' = cardTimers \ {t}
    /\ LET rec == [calls[t.call] EXCEPT
                     !.pc = IF @ = "tokenBackoff" THEN "token" ELSE "http",
                     !.attempt = @ + 1,
                     !.posts = IF calls[t.call].pc = "tokenBackoff" THEN @ + 1 ELSE @]
       IN /\ calls' = MapSet(calls, t.call, rec)
          /\ cardPuts' = Sent(t.call, rec)
    /\ UNCHANGED <<now, nextTimer, mergeVars, accessToken, accessTokenExpiry,
                   cardInstances, cardUpdateTimestamps, cardUpdateTimeouts,
                   cleanupIntervalId, nextCall, chanVars>>


\* the card request succeeds: sendInteractiveCard caches the instance;
\* updateInteractiveCard refreshes it and the throttle arms the inactivity timeout
HttpResponseOk(id) ==
    /\ id \in DOMAIN calls
    /\ calls[id].pc = "http"
    /\ LET rec == calls[id]
           c == rec.card
       IN /\ calls' = MapSet(calls, id, [rec EXCEPT !.pc = "resolved",
                                                    !.status = 200,
                                                    !.doneAt = now])
          /\ IF rec.op = "send"
             THEN /\ cardInstances' =
                       MapSet(cardInstances, c, [createdAt |-> now, lastUpdated |-> now])
                  /\ UNCHANGED <<cardTimers, cardUpdateTimeouts, nextTimer>>
             ELSE /\ cardInstances' =
                       IF c \in DOMAIN cardInstances
                       THEN [cardInstances EXCEPT ![c].lastUpdated = now]
                       ELSE cardInstances
                  /\ IF rec.path = "direct"
                     THEN UNCHANGED <<cardTimers, cardUpdateTimeouts, nextTimer>>
                     ELSE /\ cardTimers' = cardTimers \cup
                               { [id |-> nextTimer, kind |-> "inactivity", card |-> c,
                                  call |-> id, at |-> now + CARD_UPDATE_TIMEOUT] }
                          /\ cardUpdateTimeouts' =
                               MapSet(cardUpdateTimeouts, c, nextTimer)
                          /\ nextTimer' = nextTimer + 1
    /\ UNCHANGED <<now, mergeVars, accessToken, accessTokenExpiry,
                   cardUpdateTimestamps, cleanupIntervalId, nextCall, cardPuts, chanVars>>

\* the statuses on which updateInteractiveCard drops the card from the registry
TerminalStatuses == {404, 410, 403}

\* (mutant) updateInteractiveCard drops the card whatever the error it throws
HttpResponseError_EvictsOnAnyError(id, statusCode) ==
    /\ id \in DOMAIN calls
    /\ calls[id].pc = "http"
    /\ Failed(id, statusCode, "httpBackoff")
    /\ cardInstances' =
         IF /\ calls[id].op = "update"
            /\ ~(isRetryable(statusCode) /\ calls[id].attempt # MAX_RETRIES)
         THEN MapDelete(cardInstances, calls[id].card)
         ELSE cardInstances
    /\ UNCHANGED <<now, mergeVars, accessToken, accessTokenExpiry,
                   cardUpdateTimestamps, cardUpdateTimeouts, cleanupIntervalId,
                   nextCall, cardPuts, chanVars>>

\* the card request fails: retry, or throw (updateInteractiveCard's catch included)
HttpResponseError(id, statusCode) ==
    /\ id \in DOMAIN calls
    /\ calls[id].pc = "http"
    /\ Failed(id, statusCode, "httpBackoff")
    /\ cardInstances' =
         IF /\ calls[id].op = "update"
            /\ ~(isRetryable(statusCode) /\ calls[id].attempt # MAX_RETRIES)
            /\ statusCode \in TerminalStatuses
         THEN MapDelete(cardInstances, calls[id].card)
         ELSE cardInstances
    /\ UNCHANGED <<now, mergeVars, accessToken, accessTokenExpiry,
                   cardUpdateTimestamps, cardUpdateTimeouts, cleanupIntervalId,
                   nextCall, cardPuts, chanVars>>

\* the card sweep interval, while the model follows it
CardSweepArmed == /\ cleanupIntervalId # 0
                  /\ cleanupIntervalId <= StartTime + CardSweepHorizon

\* the cards cleanupCardCache removes
ExpiredCards == { c \in DOMAIN cardInstances :
                    now - cardInstances[c].lastUpdated > CARD_CACHE_TTL }

\* (mutant) the sweep forgets clearTimeout(timeout)
cleanupCardCache_KeepsTimer ==
    /\ CardSweepArmed
    /\ now >= cleanupIntervalId
    /\ cardInstances' = [c \in DOMAIN cardInstances \ ExpiredCards |-> cardInstances[c]]
    /\ cardUpdateTimestamps' = [c \in DOMAIN cardUpdateTimestamps \ ExpiredCards |->
                                  cardUpdateTimestamps[c]]
    /\ cardUpdateTimeouts' = [c \in DOMAIN cardUpdateTimeouts \ ExpiredCards |->
                                cardUpdateTimeouts[c]]
    /\ cleanupIntervalId' = cleanupIntervalId + CARD_CLEANUP_INTERVAL
    /\ UNCHANGED <<now, nextTimer, mergeVars, accessToken, accessTokenExpiry,
                   cardTimers, calls, nextCall, cardPuts, chanVars>>

\* the setInterval callback cleanupCardCache
cleanupCardCache ==
    /\ CardSweepArmed
    /\ now >= cleanupIntervalId
    /\ LET handles == { cardUpdateTimeouts[c] :
                          c \in ExpiredCards \cap DOMAIN cardUpdateTimeouts }
       IN /\ cardTimers' = { t \in cardTimers : t.id \notin handles }
          /\ calls' = ClearedBy(calls, handles, "sweep")
    /\ cardInstances' = [c \in DOMAIN cardInstances \ ExpiredCards |-> cardInstances[c]]
    /\ cardUpdateTimestamps' = [c \in DOMAIN cardUpdateTimestamps \ ExpiredCards |->
                                  cardUpdateTimestamps[c]]
    /\ cardUpdateTimeouts' = [c \in DOMAIN cardUpdateTimeouts \ ExpiredCards |->
                                cardUpdateTimeouts[c]]
    /\ cleanupIntervalId' = cleanupIntervalId + CARD_CLEANUP_INTERVAL
    /\ UNCHANGED <<now, nextTimer, mergeVars, accessToken, accessTokenExpiry,
                   nextCall, cardPuts, chanVars>>

\* stopCardCacheCleanup, called by the gateway's stop(); followed once
stopCardCacheCleanup ==
    /\ cleanupIntervalId # 0
    /\ LET handles == { cardUpdateTimeouts[c] : c \in DOMAIN cardUpdateTimeouts }
       IN /\ cardTimers' = { t \in cardTimers : t.id \notin handles }
          /\ calls' = ClearedBy(calls, handles, "stop")
    /\ cleanupIntervalId' = 0
    /\ cardUpdateTimeouts' = EmptyMap
    /\ UNCHANGED <<now, nextTimer, mergeVars, accessToken, accessTokenExpiry,
                   cardInstances, cardUpdateTimestamps, nextCall, cardPuts,
                   run, effects, files>>

\* the gateway's stop(): once, and not after the abort listener has run
stop ==
    /\ ~stopped
    /\ stopped' = TRUE
    /\ stopCardCacheCleanup

\* the listener of the abort signal: sets the flag and disconnects
abort ==
    /\ ~stopped
    /\ stopped' = TRUE
    /\ UNCHANGED <<now, nextTimer, mergeVars, cardVars, run, effects, files>>

\* deadlines of the throttle's timers
ThrottleDeadlines == { t.at : t \in cardTimers }

\* time passes by one step, not beyond the next deadline; the steps are
\* followed for CardTickHorizon after a card was sent
ThrottleTick ==
    /\ \E id \in DOMAIN calls :
          /\ calls[id].op = "send" /\ calls[id].pc = "resolved"
          /\ now + TickStep <= calls[id].doneAt + CardTickHorizon
    /\ \A d \in ThrottleDeadlines : now + TickStep <= d
    /\ now' = now + TickStep
    /\ UNCHANGED <<nextTimer, mergeVars, cardVars, chanVars>>

\* nothing happens until the next deadline
ThrottleIdle ==
    /\ ThrottleDeadlines # {}
    /\ SetMin(ThrottleDeadlines) > now
    /\ now' = SetMin(ThrottleDeadlines)
    /\ UNCHANGED <<nextTimer, mergeVars, cardVars, chanVars>>

\* the throttle and what it runs on, every failure being final
ThrottleNext ==
    \/ \E c \in Cards : sendInteractiveCard(c)
    \/ \E c \in Cards : updateInteractiveCardThrottled(c)
    \/ \E t \in cardTimers : ScheduledUpdateFires(t)
    \/ \E t \in cardTimers : InactivityFires(t)
    \/ \E id \in DOMAIN calls, e \in ExpireIns : TokenResponseOk(id, e)
    \/ \E id \in DOMAIN calls, sc \in FinalStatuses : TokenResponseError(id, sc)
    \/ \E id \in DOMAIN calls : HttpResponseOk(id)
    \/ \E id \in DOMAIN calls, sc \in FinalStatuses : HttpResponseError(id, sc)
    \/ stop
    \/ ThrottleTick
    \/ ThrottleIdle

ThrottleSpec == Init /\ [][ThrottleNext]_vars

(***************************************************************************)
(* Properties of the card update throttle                                  *)
(***************************************************************************)
\* the executions of updateInteractiveCardThrottled, for all cards and for one
UpdateCalls == { id \in DOMAIN calls : calls[id].op = "update" }

UpdatesOf(c) == { id \in UpdateCalls : calls[id].card = c }

\* the positions of the PUT requests that carry the text of call id
PutsOf(id) == { j \in 1..Len(cardPuts) : cardPuts[j].call = id }

\* the armed timers of a kind for a card
CardTimersOf(c, kind) == { t \in cardTimers : t.card = c /\ t.kind = kind }

C6_PutsSpacedByInterval ==
    \A i, j \in 1..Len(cardPuts) :
        (i < j /\ cardPuts[i].card = cardPuts[j].card)
            => cardPuts[j].at - cardPuts[i].at >= CARD_UPDATE_MIN_INTERVAL

\* C7 (as stated): for a card, the text of an earlier request is never sent
\* after the text of a later request
C7_NoOlderTextAfterNewer ==
    \A i, j \in 1..Len(cardPuts) :
        (i < j /\ cardPuts[i].card = cardPuts[j].card)
            => cardPuts[i].call <= cardPuts[j].call

\* a successful update of the card was over 500 ms or more before call id was
\* made, and no update of the card was started in those 500 ms
IntervalElapsed(id) ==
    LET r == calls[id]
    IN /\ \E s \in UpdatesOf(r.card) :
            /\ calls[s].pc = "resolved"
            /\ calls[s].doneAt + CARD_UPDATE_MIN_INTERVAL <= r.issuedAt
       /\ \A u \in UpdatesOf(r.card) \ {id} :
            (calls[u].startedAt # 0 /\ calls[u].startedAt <= r.issuedAt)
                => calls[u].startedAt + CARD_UPDATE_MIN_INTERVAL <= r.issuedAt

\* C8: after a successful update, a throttled call made once 500 ms have
\* elapsed runs its update at once: it is not deferred, it arms no scheduled
\* timer, and with a cached token its PUT request leaves in the same instant
C8_ImmediateAfterInterval ==
    \A id \in UpdateCalls :
        IntervalElapsed(id)
            => /\ calls[id].path = "immediate"
               /\ calls[id].startedAt = calls[id].issuedAt
               /\ \A t \in cardTimers : ~(t.kind = "scheduled" /\ t.call = id)
               /\ calls[id].tokenNow = 0
                     => \E j \in PutsOf(id) : cardPuts[j].at = calls[id].issuedAt

\* C8 witness: a call made exactly 500 ms after the start of the successful
\* update before it was sent at once
C8_Witness ==
    \E id \in UpdateCalls : \E s \in UpdatesOf(calls[id].card) :
        /\ IntervalElapsed(id)
        /\ calls[s].pc = "resolved"
        /\ calls[id].issuedAt = calls[s].startedAt + CARD_UPDATE_MIN_INTERVAL
        /\ calls[id].path = "immediate"
        /\ \E j \in PutsOf(id) : cardPuts[j].at = calls[id].issuedAt

\* C9 (as stated): a card has at most one armed scheduled update and at most
\* one armed inactivity timer, and a scheduled update that a later scheduled
\* update replaced (made for the card while it was pending) never runs
C9_OneTimerOfEachKind ==
    /\ \A c \in Cards : /\ Cardinality(CardTimersOf(c, "scheduled")) <= 1
                        /\ Cardinality(CardTimersOf(c, "inactivity")) <= 1
    /\ \A i \in UpdateCalls : \A j \in UpdatesOf(calls[i].card) :
          ( /\ i < j
            /\ calls[i].path = "scheduled" /\ calls[j].path = "scheduled"
            /\ calls[j].lastUpdate < calls[i].slot )
              => calls[i].startedAt = 0

\* call id comes after the card went 60 s without an update
AfterInactivity(id) ==
    LET r == calls[id]
    IN \E s \in UpdatesOf(r.card) :
          /\ calls[s].pc = "resolved"
          /\ calls[s].doneAt + CARD_UPDATE_TIMEOUT <= r.issuedAt
          /\ \A u \in UpdatesOf(r.card) \ {id} :
                calls[u].startedAt # 0 => calls[u].startedAt <= calls[s].doneAt

\* a throttled call made after the inactivity period takes the immediate path
C10_IdlePathAfterwards ==
    \A id \in UpdateCalls :
        AfterInactivity(id)
            => /\ calls[id].path = "immediate"
               /\ calls[id].startedAt = calls[id].issuedAt

\* a step in which a due inactivity timer goes away without a new call sends
\* nothing, leaves the registry and the timestamps alone and leaves no handle
\* for the card
C10_FiringOnlyDropsHandle ==
    \A t \in cardTimers :
        ( /\ t.kind = "inactivity" /\ now >= t.at
          /\ t \notin cardTimers'
          /\ nextCall' = nextCall )
            => /\ cardPuts' = cardPuts
               /\ cardInstances' = cardInstances
               /\ cardUpdateTimestamps' = cardUpdateTimestamps
               /\ calls' = calls
               /\ t.card \notin DOMAIN cardUpdateTimeouts'

\* C10: after 60 s without an update the inactivity timer only removes the
\* card's timer handle (no request is sent, the card stays in the registry),
\* and a throttled update made afterwards runs at once
C10_InactivityFinalizes ==
    []C10_IdlePathAfterwards /\ [][C10_FiringOnlyDropsHandle]_vars

\* C10 witness: the inactivity timer has fired (the card has no handle left,
\* and stop() was not called), the card is in the registry, and the call made
\* afterwards has its PUT request out without delay
C10_Witness ==
    \E id \in UpdateCalls :
        /\ AfterInactivity(id)
        /\ calls[id].card \notin DOMAIN cardUpdateTimeouts
        /\ CardTimersOf(calls[id].card, "inactivity") = {}
        /\ cleanupIntervalId # 0
        /\ calls[id].path = "immediate"
        /\ calls[id].pc = "http"
        /\ \E j \in PutsOf(id) : cardPuts[j].at = calls[id].issuedAt
        /\ calls[id].card \in DOMAIN cardInstances

(***************************************************************************)
(* Terminal failures of a card update                                      *)
(***************************************************************************)
\* the update attempt of call id was answered with a terminal status
TerminallyRejected(id) ==
    /\ calls[id].pc = "rejected"
    /\ calls[id].status \in TerminalStatuses
    /\ PutsOf(id) # {}

\* C20 (as stated): once an update attempt for a card has failed with a
\* terminal status (404, 410, 403) the card is out of the registry, and no
\* update request made later for that card sends a PUT
C20_NoUpdateAfterEviction ==
    \A r \in UpdateCalls :
        TerminallyRejected(r)
            => /\ calls[r].card \notin DOMAIN cardInstances
               /\ \A j \in 1..Len(cardPuts) :
                     cardPuts[j].card = calls[r].card
                        => calls[cardPuts[j].call].issuedAt <= calls[r].doneAt

(***************************************************************************)
(* Card requests under retryWithBackoff                                    *)
(***************************************************************************)
\* bound: the throttled calls followed when failures are retried
MaxRetriedCalls == 1

\* the error statuses of the retry model: one terminal, one retryable, and
\* an error without response (0)
RetryStatuses == {0, 404, 500}

\* updateInteractiveCard and what it runs on, failures being retried
RetryNext ==
    \/ \E c \in Cards : sendInteractiveCard(c)
    \/ \E c \in Cards : /\ Cardinality({ id \in DOMAIN calls : calls[id].op = "update" })
                              < MaxRetriedCalls
                        /\ updateInteractiveCard(c)
    \/ \E t \in cardTimers : BackoffFires(t)
    \/ \E id \in DOMAIN calls, e \in ExpireIns : TokenResponseOk(id, e)
    \/ \E id \in DOMAIN calls, sc \in RetryStatuses : TokenResponseError(id, sc)
    \/ \E id \in DOMAIN calls : HttpResponseOk(id)
    \/ \E id \in DOMAIN calls, sc \in RetryStatuses : HttpResponseError(id, sc)
    \/ ThrottleIdle

RetrySpec == Init /\ [][RetryNext]_vars

\* the number of PUT requests of an update never exceeds the attempts of
\* retryWithBackoff; only a retryable status waits for a retry; an update
\* rejected with 500 has made all its attempts
C11_Attempts ==
    \A id \in UpdateCalls :
        LET r == calls[id]
        IN PutsOf(id) # {}
              => /\ Cardinality(PutsOf(id)) = r.attempt
                 /\ r.attempt <= MAX_RETRIES
                 /\ r.pc = "httpBackoff" => r.status = 500
                 /\ (r.pc = "rejected" /\ r.status = 500) => r.attempt = MAX_RETRIES
                 /\ (r.pc = "rejected" /\ r.status = 404)
                       => r.card \notin DOMAIN cardInstances

\* the step in which the answer to an update's PUT arrives: 404 rejects the
\* update at once, arms no retry and removes the card from the registry; 500
\* arms a retry after attempts 1 and 2 and rejects the update after attempt 3,
\* and leaves the registry alone in both cases
C11_Answered ==
    \A id \in UpdateCalls :
        (calls[id].pc = "http" /\ calls'[id].pc # "http")
            => LET r == calls'[id]
               IN /\ r.status = 404
                       => /\ r.pc = "rejected"
                          /\ r.attempt = calls[id].attempt
                          /\ cardTimers' = cardTimers
                          /\ r.card \notin DOMAIN cardInstances'
                  /\ r.status = 500
                       => /\ r.pc = IF r.attempt < MAX_RETRIES THEN "httpBackoff" ELSE "rejected"
                          /\ cardInstances' = cardInstances
                          /\ r.attempt < MAX_RETRIES =>
                                \E t \in cardTimers' \ cardTimers :
                                    /\ t.kind = "backoff" /\ t.call = id
                                    /\ t.at = now + delayMs(r.attempt)

\* C11: a card update answered 404 is attempted once (no retry), the error
\* reaches the caller and the card is out of the registry afterwards; a card
\* update answered 500 is retried up to 3 attempts in all before the error
\* reaches the caller, and the card stays in the registry
C11_TerminalOnceRetryableThrice ==
    []C11_Attempts /\ [][C11_Answered]_vars

\* C11 witness: an update was answered 500 three times, its three PUT requests
\* having left 100 ms and 200 ms apart; the error has reached the caller and
\* the card is in the registry
C11_Witness ==
    \E id \in UpdateCalls :
        /\ calls[id].pc = "rejected" /\ calls[id].status = 500
        /\ Cardinality(PutsOf(id)) = 3
        /\ \E i, j, k \in PutsOf(id) :
              /\ cardPuts[j].at = cardPuts[i].at + 100
              /\ cardPuts[k].at = cardPuts[j].at + 200
        /\ calls[id].card \in DOMAIN cardInstances

\* an update answered 404 on its first attempt: one PUT request, the error has
\* reached the caller, the card is out of the registry
C11_NotFoundOnce ==
    \E id \in UpdateCalls :
        /\ calls[id].pc = "rejected" /\ calls[id].status = 404
        /\ Cardinality(PutsOf(id)) = 1
        /\ calls[id].card \notin DOMAIN cardInstances
        /\ \A t \in cardTimers : t.call # id

(***************************************************************************)
(* The access token cache                                                  *)
(***************************************************************************)
\* bound: the executions of getAccessToken followed
MaxTokenCalls == 2

\* expireIn of the token responses of the token model, in seconds: a token
\* that is at the margin when it arrives, and a long-lived one
TokenExpireIns == {60, 7200}

\* the executions of getAccessToken on its own
TokenCalls == { id \in DOMAIN calls : calls[id].op = "token" }

\* getAccessToken and what it runs on
TokenNext ==
    \/ (Cardinality(TokenCalls) < MaxTokenCalls /\ getAccessToken)
    \/ \E id \in DOMAIN calls, e \in TokenExpireIns : TokenResponseOk(id, e)
    \/ \E id \in DOMAIN calls, sc \in RetryStatuses : TokenResponseError(id, sc)
    \/ \E t \in cardTimers : BackoffFires(t)
    \/ ThrottleIdle

TokenSpec == Init /\ [][TokenNext]_vars

\* C12 (as stated): a call of getAccessToken that finds a cached token with
\* more than the margin left makes no token request and returns the cached
\* token; any other call makes exactly one token request and replaces the
\* cached token and its expiry
C12_OneRefreshCall ==
    \A id \in TokenCalls :
        LET r == calls[id]
        IN r.pc \in {"resolved", "rejected"}
              => IF r.tokenNow = 0
                 THEN r.posts = 0 /\ r.token # 0
                 ELSE r.posts = 1 /\ r.pc = "resolved" /\ r.token = id

\* the step that calls getAccessToken: with a stored token whose remaining
\* lifetime exceeds 60 s the call returns that token and sends nothing;
\* otherwise it sends one token request; the cache is as it was
C12_Called ==
    nextCall' # nextCall
        => LET r == calls'[nextCall]
           IN r.op = "token"
                => /\ IF accessToken # 0 /\ accessTokenExpiry - now > TOKEN_EXPIRY_MARGIN_MS
                      THEN r.pc = "resolved" /\ r.token = accessToken /\ r.posts = 0
                      ELSE r.pc = "token" /\ r.posts = 1 /\ r.tokenNow = now
                   /\ accessToken' = accessToken
                   /\ accessTokenExpiry' = accessTokenExpiry

\* the step in which the answer to a token request arrives: a success
\* replaces the stored token and sets its expiry from the time the call
\* started, and the call returns the new token; a failure leaves the cache as
\* it was, and is followed by a retry (500, attempts 1 and 2) or thrown
C12_TokenAnswered ==
    \A id \in TokenCalls :
        (calls[id].pc = "token" /\ calls'[id].pc # "token")
            => LET r == calls'[id]
               IN IF r.pc = "resolved"
                  THEN /\ accessToken' = r.token /\ r.token = id
                       /\ \E e \in TokenExpireIns :
                             accessTokenExpiry' = r.tokenNow + e * 1000
                       /\ r.posts = calls[id].posts
                  ELSE /\ accessToken' = accessToken
                       /\ accessTokenExpiry' = accessTokenExpiry
                       /\ r.pc = IF r.status = 500 /\ r.posts < MAX_RETRIES
                                 THEN "tokenBackoff" ELSE "rejected"

\* a refresh sends between one and three token requests
C12_Posts ==
    \A id \in TokenCalls :
        LET r == calls[id]
        IN /\ r.posts <= MAX_RETRIES
           /\ r.tokenNow # 0 => r.posts >= 1
           /\ (r.pc = "rejected" /\ r.status = 500) => r.posts = MAX_RETRIES
           /\ r.pc = "rejected" => r.token = 0

\* C12 (amended): with a cached token that has more than 60 s left the call
\* sends nothing and returns it; otherwise it runs one refresh of up to three
\* token requests, which replaces token and expiry when a request succeeds and
\* leaves them alone when the refresh fails
C12_RefreshWithRetry ==
    []C12_Posts /\ [][C12_Called /\ C12_TokenAnswered]_vars

\* C12 witness: one call refreshed the token at its second request, and a
\* later call was served that token from the cache without a request
C12_Witness ==
    \E a, b \in TokenCalls :
        /\ a < b
        /\ calls[a].pc = "resolved" /\ calls[a].posts = 2 /\ calls[a].token = a
        /\ calls[b].pc = "resolved" /\ calls[b].posts = 0 /\ calls[b].token = a
        /\ calls[b].issuedAt >= calls[a].doneAt
        /\ accessToken = a

(***************************************************************************)
(* Shutdown of a gateway account                                           *)
(***************************************************************************)
\* the throttle while the account runs, and its shutdown: by the abort signal
\* or by stop(); no card function is called for a stopped account
GatewayNext ==
    \/ \E c \in Cards : ~stopped /\ sendInteractiveCard(c)
    \/ \E c \in Cards : ~stopped /\ updateInteractiveCardThrottled(c)
    \/ \E t \in cardTimers : ScheduledUpdateFires(t)
    \/ \E t \in cardTimers : InactivityFires(t)
    \/ \E id \in DOMAIN calls, e \in ExpireIns : TokenResponseOk(id, e)
    \/ \E id \in DOMAIN calls : HttpResponseOk(id)
    \/ abort
    \/ stop
    \/ ThrottleTick
    \/ ThrottleIdle

GatewaySpec == Init /\ [][GatewayNext]_vars

\* C13 (as stated): once the account is stopped, by the abort signal or by
\* stop(), whichever comes first, the card sweep is stopped and no scheduled
\* update is left armed
C13_ShutdownClearsTimers ==
    stopped => /\ cleanupIntervalId = 0
               /\ \A t \in cardTimers : t.kind # "scheduled"

(***************************************************************************)
(* Direct-message authorization                                            *)
(***************************************************************************)
\* String.prototype.toLowerCase on the pieces an id is written with
LowerPiece(p) ==
    CASE p = "U1" -> "u1"
      [] p = "DD:" -> "dd:"
      [] p = "DingTalk:" -> "dingtalk:"
      [] OTHER -> p

toLowerCase(s) == [i \in 1..Len(s) |-> LowerPiece(s[i])]

\* value.replace(/^(dingtalk|dd|ding):/i, '')
StripChannelPrefix(s) ==
    IF s # <<>> /\ LowerPiece(s[1]) \in {"dingtalk:", "dd:", "ding:"}
    THEN Tail(s) ELSE s

\* Array.prototype.includes
Includes(list, v) == \E i \in 1..Len(list) : list[i] = v

\* normalizeAllowFrom
normalizeAllowFrom(list) ==
    LET entries == FilterBoolean([i \in 1..Len(list) |-> Trim(list[i])])
        normalized == [i \in 1..Len(SelectSeq(entries, LAMBDA v : v # <<"*">>)) |->
                         StripChannelPrefix(SelectSeq(entries, LAMBDA v : v # <<"*">>)[i])]
    IN [ entries |-> normalized,
         entriesLower |-> [i \in 1..Len(normalized) |-> toLowerCase(normalized[i])],
         hasWildcard |-> Includes(entries, <<"*">>),
         hasEntries |-> Len(entries) > 0 ]

\* isSenderAllowed
isSenderAllowed(allow, senderId) ==
    IF ~allow.hasEntries THEN TRUE
    ELSE IF allow.hasWildcard THEN TRUE
    ELSE IF senderId # <<>> /\ Includes(allow.entriesLower, toLowerCase(senderId)) THEN TRUE
    ELSE FALSE

(***************************************************************************)
(* The inbound pipeline: handleDingTalkMessageOriginal                     *)
(***************************************************************************)
\* bound: the chunks the reply dispatcher hands to deliver in one run
MaxChunks == 2

\* the inbound events of the pipeline model
SenderIds == { <<"u1">>, <<"U1">>, <<"u2">>, <<"dd:", "u1">> }

EventKinds == {"text", "blank", "pictureA", "pictureB", "richA", "richB"}

RichTextKinds == {"richA", "richB"}

\* an inbound event: a text, a text of white space only, a picture with one of
\* two download codes, or a richText message of one picture part with a
\* download code of its own and no file name
InboundEvent(msgId, conversationType, senderId, kind) ==
    [ msgId |-> msgId,
      conversationType |-> conversationType,
      senderId |-> senderId,
      sessionWebhook |-> SessionWebhookOf(msgId),
      msgtype |-> IF kind \in {"pictureA", "pictureB"} THEN "picture"
                  ELSE IF kind \in RichTextKinds THEN "richText" ELSE "text",
      content |-> IF kind = "text" THEN <<" ", "h", "i">>
                  ELSE IF kind = "blank" THEN <<" ">> ELSE <<>>,
      downloadCode |-> IF kind = "pictureA" THEN "codeA"
                       ELSE IF kind = "pictureB" THEN "codeB" ELSE "",
      richText |-> IF kind \in RichTextKinds
                   THEN << [ type |-> "picture", fileName |-> <<>>,
                             downloadCode |-> IF kind = "richA" THEN "codeRA"
                                              ELSE "codeRB" ] >>
                   ELSE <<>> ]

\* the events buffered under one cache key, numbered in arrival order
BufferedEvents(conversationType, senderId, kinds) ==
    [i \in 1..Len(kinds) |-> InboundEvent(i, conversationType, senderId, kinds[i])]

\* the merge entry holding these events when it is flushed
MergedEntry(datas) ==
    [ messages  |-> [i \in 1..Len(datas) |->
                       [content |-> extractMessageContent(datas[i]),
                        data |-> datas[i], timestamp |-> StartTime]],
      timer     |-> 0,
      startTime |-> StartTime ]

\* the account configurations of the pipeline model ("" : not set)
AllowFroms ==
    { <<>>,
      << <<" ">> >>,
      << <<"*">> >>,
      << <<"u1">> >>,
      << <<"DingTalk:", "u1">>, <<" ", "u2", " ">> >> }

PipelineConfigs ==
    [ dmPolicy : {"", "open", "allowlist", "pairing"},
      allowFrom : AllowFroms,
      messageType : {"card", "markdown"},
      showThinking : BOOLEAN ]

\* the configurations that differ in the authorization of direct messages:
\* every allow list under 'allowlist', two of them under 'open'
PolicyConfigs ==
    { g \in PipelineConfigs :
        /\ g.messageType = "markdown" /\ ~g.showThinking
        /\ g.dmPolicy \in {"", "pairing"} => g.allowFrom = <<>>
        /\ g.dmPolicy = "open" => g.allowFrom \in { <<>>, << <<"u1">> >> } }

\* the configurations that differ in the way the reply is sent
ReplyConfigs ==
    { g \in PipelineConfigs : g.dmPolicy = "open" /\ g.allowFrom = <<>> }

\* the store paths the host resolves for the agent of a route
StorePaths == { << <<"store">> >>, << <<"agents">>, <<"sessions.json">> >> }

\* the flushes of the pipeline model: a direct text from any sender under
\* any policy; a direct or group text under any reply mode; one or two
\* group events, each a text or a picture
PipelineInputs ==
    { [datas |-> BufferedEvents("1", s, <<"text">>), cfg |-> cfg,
       storePath |-> << <<"store">> >>] :
        s \in SenderIds, cfg \in PolicyConfigs }
    \cup
    { [datas |-> BufferedEvents(c, <<"u1">>, <<"text">>), cfg |-> cfg,
       storePath |-> << <<"store">> >>] :
        c \in {"1", "2"}, cfg \in ReplyConfigs }
    \cup
    { [datas |-> BufferedEvents("2", <<"u1">>, kinds), cfg |-> cfg,
       storePath |-> << <<"store">> >>] :
        kinds \in UNION { [1..n -> EventKinds \ RichTextKinds] : n \in 1..2 },
        cfg \in { g \in ReplyConfigs : g.messageType = "markdown" /\ ~g.showThinking } }

\* bound: the media files of one payload
MaxMediaUrls == 2

\* the payloads the reply dispatcher hands to deliver: with or without text,
\* with a list of mediaUrls, a single mediaUrl, or neither
Payloads ==
    { p \in [ text : BOOLEAN, mediaUrls : 0..MaxMediaUrls, mediaUrl : BOOLEAN ] :
        p.mediaUrl => p.mediaUrls = 0 }

\* mergedContent of processMergedMessages
mergedContent(call) ==
    [ text |-> call.text, messageType |-> "richText", mediaFiles |-> call.mediaFiles,
      mediaPath |-> IF call.mediaFiles = <<>> THEN ""
                    ELSE call.mediaFiles[1].downloadCode ]

\* the text of the denial notice
DenialText(senderId) == <<"access restricted, your user id: ">> \o senderId
                           \o <<" ask the administrator">>

\* one more thing done to the outside
Effect(kind, arg) == Append(effects, [kind |-> kind, arg |-> arg])

\* Paths are sequences of components, a component being a sequence of pieces
\* of text.  path.dirname and path.join:
dirname(p) == SubSeq(p, 1, Len(p) - 1)

join(p, components) == p \o components

\* os.tmpdir()
tmpdir == << <<"tmp">> >>

\* cfg.session?.timeout || 3600000: the configurations of the model set none
SessionTimeout == 3600000

\* sanitizeFileName: the characters \ / : * ? " < > | become '_' (names stay
\* below the 255 characters kept)
sanitizeFileName(fileName) ==
    [i \in 1..Len(fileName) |->
        IF fileName[i] \in {"\\", "/", ":", "*", "?", "\"", "<", ">", "|"}
        THEN "_" ELSE fileName[i]]

\* fs.writeFileSync: the file is created or overwritten, its mtime is now
writeFileSync(fs, filePath, data, at) ==
    MapSet(fs, filePath, [data |-> data, mtime |-> at])

\* the place attemptSingleDownload writes a downloaded file to: the media
\* directory next to the store, or the temporary directory when the media
\* directory cannot be created
DownloadPath(storePath, originalFileName, isFallback) ==
    join(IF isFallback THEN tmpdir ELSE join(dirname(storePath), << <<"media">> >>),
         << sanitizeFileName(originalFileName) >>)

\* the directory cleanupSessionMedia scans
SessionMediaDir(storePath, sessionKey) ==
    join(storePath, << <<"sessions">>, sessionKey, <<"media">> >>)

\* cleanupSessionMedia: every file of the session's media directory whose
\* mtime is before the cutoff is unlinked
cleanupSessionMedia(fs, storePath, sessionKey, sessionTimeout, at) ==
    LET mediaDir == SessionMediaDir(storePath, sessionKey)
        cutoffTime == at - sessionTimeout * 2
        expired == { f \in DOMAIN fs : /\ Len(f) = Len(mediaDir) + 1
                                        /\ dirname(f) = mediaDir
                                        /\ fs[f].mtime < cutoffTime }
    IN [f \in DOMAIN fs \ expired |-> fs[f]]

\* the outcomes of downloadMedia: null, the file saved in the media
\* directory, or the file saved in the temporary directory
DownloadOutcomes == {"null", "saved", "fallback"}

\* the call of downloadMedia for the i-th media file of the content
Download(r, i) == [kind |-> "downloadMedia", arg |-> <<r.mediaFiles[i].downloadCode>>]

\* handleDingTalkMessageOriginal up to its first await: content, authorization
\* of a direct message, route, and the first call awaited
handleDingTalkMessageOriginal(params, preExtractedContent) ==
    /\ run.pc = "idle"
    /\ LET data == params.data
           cfg == params.cfg
           content == preExtractedContent
           isDirect == data.conversationType = "1"
           senderId == data.senderId
           dmPolicy == IF cfg.dmPolicy = "" THEN "open" ELSE cfg.dmPolicy
           isAllowed == isSenderAllowed(normalizeAllowFrom(cfg.allowFrom), senderId)
           route == [sessionKey |-> <<"session:">> \o (IF isDirect THEN senderId
                                                        ELSE <<"groupId">>)]
           r == [ pc |-> "returned", data |-> data, cfg |-> cfg, text |-> content.text,
                  messages |-> params.messages, mediaFiles |-> content.mediaFiles, i |-> 0,
                  isDirect |-> isDirect, denied |-> FALSE, route |-> route,
                  logged |-> <<>>, currentCardBizId |-> FALSE,
                  payload |-> [text |-> FALSE, mediaUrls |-> 0, mediaUrl |-> FALSE],
                  sent |-> 0, mediaFailed |-> {}, results |-> <<>>, failures |-> 0,
                  storePath |-> params.storePath, downloadedMediaFiles |-> <<>>,
                  n |-> IF "n" \in DOMAIN run THEN run.n ELSE 1 ]
       IN IF content.text = <<>>
          THEN run' = r /\ effects' = effects
          ELSE IF isDirect /\ dmPolicy = "allowlist" /\ ~isAllowed
          THEN /\ run' = [r EXCEPT !.pc = "denial", !.denied = TRUE]
               /\ effects' = Effect("sendBySession", DenialText(senderId))
          ELSE IF content.messageType = "richText" /\ content.mediaFiles # <<>>
          THEN /\ run' = [r EXCEPT !.pc = "download", !.i = 1]
               /\ effects' = Effect("resolveAgentRoute", <<>>) \o <<Download(r, 1)>>
          ELSE /\ run' = [r EXCEPT !.pc = "record"]
               /\ effects' = Effect("resolveAgentRoute", <<>>)
                                \o <<[kind |-> "recordInboundSession", arg |-> <<>>]>>
    /\ UNCHANGED <<now, nextTimer, mergeVars, cardVars, stopped, files>>

\* a flush: processMergedMessages awaits handleDingTalkMessageOriginal with
\* the merged content and the first message's data
FlushToPipeline(datas, cfg, storePath) ==
    LET entry == MergedEntry(datas)
        call == processMergedMessages("cacheKey", entry, datas[Len(datas)], "timer")
    IN handleDingTalkMessageOriginal(
           [data |-> call.data, cfg |-> cfg, messages |-> entry.messages,
            storePath |-> storePath],
           mergedContent(call))

\* the errors the pipeline has caught and logged
Logged(r, ok, what) == IF ok THEN r.logged ELSE Append(r.logged, what)

\* (mutant) after the denial notice the pipeline goes on
DenialSettled_GoesOn(ok) ==
    /\ run.pc = "denial"
    /\ run' = [run EXCEPT !.pc = "record", !.logged = Logged(run, ok, "denial")]
    /\ effects' = Effect("resolveAgentRoute", <<>>)
                     \o <<[kind |-> "recordInboundSession", arg |-> <<>>]>>
    /\ UNCHANGED <<now, nextTimer, mergeVars, cardVars, stopped, files>>

\* the denial notice was sent or failed: the failure is caught and logged, the
\* pipeline returns
DenialSettled(ok) ==
    /\ run.pc = "denial"
    /\ run' = [run EXCEPT !.pc = "returned", !.logged = Logged(run, ok, "denial")]
    /\ UNCHANGED <<now, nextTimer, mergeVars, cardVars, stopped, effects, files>>

\* downloadMedia returned: null, or the file it wrote under the reference's
\* file name, which is added to the downloaded files; the next media file is
\* downloaded, and after the last one the session is recorded
MediaDownloaded(outcome) ==
    /\ run.pc = "download"
    /\ LET mediaFileInfo == run.mediaFiles[run.i]
           filePath == DownloadPath(run.storePath, mediaFileInfo.fileName,
                                    outcome = "fallback")
           r == IF outcome = "null" THEN run
                ELSE [run EXCEPT !.downloadedMediaFiles =
                        Append(@, [ path |-> filePath,
                                    fileName |-> filePath[Len(filePath)],
                                    msgId |-> run.data.msgId ])]
       IN /\ files' = IF outcome = "null" THEN files
                      ELSE writeFileSync(files, filePath, mediaFileInfo.downloadCode, now)
          /\ IF run.i < Len(run.mediaFiles)
             THEN /\ run' = [r EXCEPT !.i = @ + 1]
                  /\ effects' = Append(effects, Download(run, run.i + 1))
             ELSE /\ run' = [r EXCEPT !.pc = "record"]
                  /\ effects' = Effect("recordInboundSession", <<>>)
    /\ UNCHANGED <<now, nextTimer, mergeVars, cardVars, stopped>>

\* the reply dispatcher is created and dispatchReplyFromConfig is called
StartDispatch(r) ==
    /\ run' = [r EXCEPT !.pc = "dispatch"]
    /\ effects' = Effect("createReplyDispatcherWithTyping", <<>>)
                     \o <<[kind |-> "dispatchReplyFromConfig", arg |-> <<>>]>>

\* recordInboundSession settled: it threw, or the thinking feedback is sent,
\* or (showThinking false) the reply is dispatched
SessionRecorded(ok) ==
    /\ run.pc = "record"
    /\ IF ~ok
       THEN run' = [run EXCEPT !.pc = "threw"] /\ effects' = effects
       ELSE IF run.cfg.showThinking
       THEN /\ run' = [run EXCEPT !.pc = "ack"]
            /\ effects' = Effect(IF run.cfg.messageType = "card"
                                 THEN "sendInteractiveCard" ELSE "sendBySession",
                                 <<"thinking">>)
       ELSE StartDispatch(run)
    /\ UNCHANGED <<now, nextTimer, mergeVars, cardVars, stopped, files>>

\* (mutant) a failure of the thinking feedback leaves the pipeline as an exception
AckSettled_Throws(ok) ==
    /\ run.pc = "ack"
    /\ IF ok
       THEN StartDispatch([run EXCEPT !.currentCardBizId = run.cfg.messageType = "card"])
       ELSE run' = [run EXCEPT !.pc = "threw"] /\ effects' = effects
    /\ UNCHANGED <<now, nextTimer, mergeVars, cardVars, stopped, files>>

\* the thinking feedback was sent or failed (caught and logged); a card that
\* was created is kept for the reply
AckSettled(ok) ==
    /\ run.pc = "ack"
    /\ StartDispatch([run EXCEPT !.currentCardBizId =
                                   ok /\ run.cfg.messageType = "card",
                                 !.logged = Logged(run, ok, "thinking")])
    /\ UNCHANGED <<now, nextTimer, mergeVars, cardVars, stopped, files>>

\* the call deliver makes for the text of a chunk
TextCall(r) ==
    IF r.cfg.messageType = "card"
    THEN IF r.currentCardBizId THEN "updateInteractiveCard" ELSE "sendInteractiveCard"
    ELSE "sendBySession"

\* deliver returns
Delivered(r, result) ==
    [r EXCEPT !.pc = "dispatch", !.results = Append(@, result)]

\* the media files deliver sends for a payload: those of mediaUrls, or else
\* the single mediaUrl
MediaCount(payload) ==
    IF payload.mediaUrls > 0 THEN payload.mediaUrls
    ELSE IF payload.mediaUrl THEN 1 ELSE 0

\* deliver, once the media files are through: the text is sent if there is
\* one, or deliver returns ok
AfterMedia(r) ==
    IF r.payload.text
    THEN /\ run' = [r EXCEPT !.pc = "deliverText"]
         /\ effects' = Effect(TextCall(r), <<"reply">>)
    ELSE /\ run' = Delivered(r, [ok |-> TRUE, error |-> ""])
         /\ effects' = effects

\* the dispatcher calls deliver: the media files go first, then the text
deliver(payload) ==
    /\ run.pc = "dispatch"
    /\ Len(run.results) < MaxChunks
    /\ LET r == [run EXCEPT !.payload = payload, !.sent = 0, !.mediaFailed = {}]
       IN IF MediaCount(payload) > 0
          THEN /\ run' = [r EXCEPT !.pc = "deliverMedia", !.sent = 1]
               /\ effects' = Effect("sendFileMessage", <<"media">>)
          ELSE AfterMedia(r)
    /\ UNCHANGED <<now, nextTimer, mergeVars, cardVars, stopped, files>>

\* (mutant) a failed media file ends the loop over the files
DeliverMediaSettled_StopsAtFailure(ok) ==
    /\ run.pc = "deliverMedia"
    /\ LET r == [run EXCEPT !.mediaFailed = IF ok THEN @ ELSE @ \cup {run.sent}]
       IN IF ok /\ r.sent < MediaCount(r.payload)
          THEN /\ run' = [r EXCEPT !.sent = @ + 1]
               /\ effects' = Effect("sendFileMessage", <<"media">>)
          ELSE AfterMedia(r)
    /\ UNCHANGED <<now, nextTimer, mergeVars, cardVars, stopped, files>>

\* sendFileMessage settled inside deliver: a failure is caught on the spot,
\* and the next file, or the text, follows
DeliverMediaSettled(ok) ==
    /\ run.pc = "deliverMedia"
    /\ LET r == [run EXCEPT !.mediaFailed = IF ok THEN @ ELSE @ \cup {run.sent}]
       IN IF r.sent < MediaCount(r.payload)
          THEN /\ run' = [r EXCEPT !.sent = @ + 1]
               /\ effects' = Effect("sendFileMessage", <<"media">>)
          ELSE AfterMedia(r)
    /\ UNCHANGED <<now, nextTimer, mergeVars, cardVars, stopped, files>>

\* (mutant) a failure of the text call leaves deliver as an exception
DeliverTextSettled_Rethrows(ok) ==
    /\ run.pc = "deliverText"
    /\ run' = IF ok
              THEN Delivered([run EXCEPT !.currentCardBizId =
                                @ \/ run.cfg.messageType = "card"],
                             [ok |-> TRUE, error |-> ""])
              ELSE [run EXCEPT !.pc = "threw", !.failures = @ + 1]
    /\ UNCHANGED <<now, nextTimer, mergeVars, cardVars, stopped, effects, files>>

\* the text call of deliver settled: deliver returns ok, or the caught error
DeliverTextSettled(ok) ==
    /\ run.pc = "deliverText"
    /\ run' = IF ok
              THEN Delivered([run EXCEPT !.currentCardBizId =
                                @ \/ run.cfg.messageType = "card"],
                             [ok |-> TRUE, error |-> ""])
              ELSE Delivered([run EXCEPT !.failures = @ + 1],
                             [ok |-> FALSE, error |-> "err.message"])
    /\ UNCHANGED <<now, nextTimer, mergeVars, cardVars, stopped, effects, files>>

\* the finally block after dispatchReplyFromConfig
Finally ==
    Effect("markDispatchIdle", <<>>)
       \o <<[kind |-> "cleanupSessionMedia", arg |-> run.route.sessionKey]>>

\* the files left by the cleanup of the finally block
FinallyFiles ==
    cleanupSessionMedia(files, run.storePath, run.route.sessionKey, SessionTimeout, now)

\* (mutant) the dispatch is marked idle and the media cleaned up only after a
\* dispatch that did not throw
DispatchSettled_NoFinally(ok) ==
    /\ run.pc = "dispatch"
    /\ run' = [run EXCEPT !.pc = IF ok THEN "returned" ELSE "threw"]
    /\ effects' = IF ok THEN Finally ELSE effects
    /\ files' = IF ok THEN FinallyFiles ELSE files
    /\ UNCHANGED <<now, nextTimer, mergeVars, cardVars, stopped>>

\* dispatchReplyFromConfig settled: the finally block runs either way
DispatchSettled(ok) ==
    /\ run.pc = "dispatch"
    /\ run' = [run EXCEPT !.pc = IF ok THEN "returned" ELSE "threw"]
    /\ effects' = Finally
    /\ files' = FinallyFiles
    /\ UNCHANGED <<now, nextTimer, mergeVars, cardVars, stopped>>

PipelineNext ==
    \/ (run.pc = "idle" /\ \E input \in PipelineInputs :
                              FlushToPipeline(input.datas, input.cfg, input.storePath))
    \/ \E ok \in BOOLEAN : DenialSettled(ok)
    \/ \E outcome \in DownloadOutcomes : MediaDownloaded(outcome)
    \/ \E ok \in BOOLEAN : SessionRecorded(ok)
    \/ \E ok \in BOOLEAN : AckSettled(ok)
    \/ \E payload \in Payloads : deliver(payload)
    \/ \E ok \in BOOLEAN : DeliverMediaSettled(ok)
    \/ \E ok \in BOOLEAN : DeliverTextSettled(ok)
    \/ \E ok \in BOOLEAN : DispatchSettled(ok)

PipelineSpec == Init /\ [][PipelineNext]_vars

(***************************************************************************)
(* The session media store: pipeline runs of one session, one after        *)
(* another, each downloading the media of its events                       *)
(***************************************************************************)
\* bound: the pipeline runs followed, one after another
MaxStoreRuns == 2

\* the flushes of the store model: one or two group events, each a picture
\* or a richText message with a picture
StoreInputs ==
    { [datas |-> BufferedEvents("2", <<"u1">>, kinds),
       cfg |-> [dmPolicy |-> "open", allowFrom |-> <<>>, messageType |-> "markdown",
                showThinking |-> FALSE],
       storePath |-> storePath] :
        kinds \in UNION { [1..n -> {"pictureA", "richA", "richB"}] : n \in 1..2 },
        storePath \in StorePaths }

\* the time between the end of a run and the next flush of the session
RunGaps == {SessionTimeout, 2 * SessionTimeout + 1}

\* the run is over; after a while the next events of the session are flushed
\* (the host resolves the same store path for them)
NextRun(gap) ==
    /\ run.pc \in {"returned", "threw"}
    /\ run.n < MaxStoreRuns
    /\ run' = [pc |-> "idle", n |-> run.n + 1, storePath |-> run.storePath]
    /\ effects' = <<>>
    /\ now' = now + gap
    /\ UNCHANGED <<nextTimer, mergeVars, cardVars, stopped, files>>

StoreNext ==
    \/ (run.pc = "idle" /\ \E input \in StoreInputs :
           /\ "storePath" \in DOMAIN run => input.storePath = run.storePath
           /\ FlushToPipeline(input.datas, input.cfg, input.storePath))
    \/ \E outcome \in DownloadOutcomes : MediaDownloaded(outcome)
    \/ \E ok \in BOOLEAN : SessionRecorded(ok)
    \/ \E ok \in BOOLEAN : DispatchSettled(ok)
    \/ \E gap \in RunGaps : NextRun(gap)

StoreSpec == Init /\ [][StoreNext]_vars

(***************************************************************************)
(* Properties of the inbound pipeline                                      *)
(***************************************************************************)
\* the pipeline has taken a direct message with text under the given policy
DirectRun(policies) ==
    /\ run.pc # "idle"
    /\ run.text # <<>>
    /\ run.isDirect
    /\ run.cfg.dmPolicy \in policies

\* the sender id, its channel prefix stripped, matches an entry of the allow
\* set, or the allow set contains the wildcard
ListedOrWildcard(senderId, allowFrom) ==
    \E i \in 1..Len(allowFrom) :
        \/ Trim(allowFrom[i]) = <<"*">>
        \/ /\ Trim(allowFrom[i]) # <<>>
           /\ toLowerCase(StripChannelPrefix(Trim(allowFrom[i])))
                = toLowerCase(StripChannelPrefix(senderId))

\* C15 (as stated): under 'allowlist' a direct message is let through only if
\* its sender id, the channel prefix stripped, matches an entry of the allow
\* set or the set contains the wildcard, and every other sender is rejected
\* whatever the allow set; under 'open' every sender is let through
C15_AllowlistAdmitsOnlyListed ==
    /\ DirectRun({"allowlist"})
          => (run.denied <=> ~ListedOrWildcard(run.data.senderId, run.cfg.allowFrom))
    /\ DirectRun({"", "open"}) => ~run.denied

\* the kinds of things the pipeline has done to the outside
EffectKinds == { effects[i].kind : i \in 1..Len(effects) }

\* text a contains text b as a run of consecutive pieces
Contains(a, b) ==
    \E i \in 0..(Len(a) - Len(b)) : SubSeq(a, i + 1, i + Len(b)) = b

\* C14: for a direct message whose sender the allowlist rejects, the pipeline
\* sends one denial notice, which contains the sender's id, and returns:
\* nothing else is done (no route resolution, no media download, no session
\* record, no thinking feedback, no reply dispatch), whether or not the notice
\* could be sent
C14_DenialOnly ==
    (run.pc # "idle" /\ run.denied)
        => /\ run.pc \in {"denial", "returned"}
           /\ Len(effects) = 1
           /\ effects[1].kind = "sendBySession"
           /\ Contains(effects[1].arg, run.data.senderId)
           /\ run.results = <<>>

\* C14 witness: the sender of a direct message, not in the allow list that
\* has entries, was sent the notice and the pipeline has returned
C14_Witness ==
    /\ DirectRun({"allowlist"})
    /\ run.denied
    /\ run.pc = "returned"
    /\ ~ListedOrWildcard(run.data.senderId, run.cfg.allowFrom)
    /\ EffectKinds = {"sendBySession"}

\* C16: deliver never throws: a failure of the call that delivers a chunk's
\* text (sendBySession, sendInteractiveCard, updateInteractiveCard) is
\* returned as {ok: false, error}, and a chunk delivered without such a
\* failure returns {ok: true}; in the step in which the text call settles,
\* deliver returns to the dispatcher with one more result
C16_TextCallSettles ==
    run.pc = "deliverText"
        => /\ run'.pc \in {"deliverText", "dispatch"}
           /\ run'.pc = "dispatch"
                => /\ Len(run'.results) = Len(run.results) + 1
                   /\ LET res == run'.results[Len(run'.results)]
                      IN IF run'.failures = run.failures
                         THEN res.ok
                         ELSE ~res.ok /\ res.error # ""

\* the run never ends by an exception of deliver, and its results are the
\* failures of the text calls and nothing else
C16_Results ==
    /\ run.pc = "threw" =>
          effects[Len(effects)].kind \in {"recordInboundSession", "cleanupSessionMedia"}
    /\ run.pc \notin {"idle"} =>
          Cardinality({ i \in 1..Len(run.results) : ~run.results[i].ok }) = run.failures

C16_DeliverNeverThrows ==
    []C16_Results /\ [][C16_TextCallSettles]_vars

\* C16 witness: of two chunks, the update of the thinking card failed for the
\* first (ok: false) and succeeded for the second (ok: true)
C16_Witness ==
    /\ run.pc = "dispatch"
    /\ Len(run.results) = 2
    /\ ~run.results[1].ok /\ run.results[1].error # ""
    /\ run.results[2].ok
    /\ Cardinality({ i \in 1..Len(effects) : effects[i].kind = "updateInteractiveCard" }) = 2

(***************************************************************************)
(* Media upload and file messages: uploadMedia, sendFileMessage            *)
(***************************************************************************)
\* bound: the calls of uploadMedia / sendFileMessage followed, one after another
MaxMediaRuns == 2

\* sizeLimits of uploadMedia, in bytes
sizeLimits(finalMediaType) ==
    CASE finalMediaType = "image" -> 2 * 1024 * 1024
      [] finalMediaType = "voice" -> 2 * 1024 * 1024
      [] finalMediaType = "video" -> 100 * 1024 * 1024
      [] OTHER -> 20 * 1024 * 1024

\* finalMediaType of uploadMedia
finalMediaTypeOf(mediaType, fileExt) ==
    IF mediaType # "file" THEN mediaType
    ELSE IF fileExt \in {"jpg", "jpeg", "png", "gif", "bmp"} THEN "image"
    ELSE IF fileExt \in {"amr", "mp3", "wav"} THEN "voice"
    ELSE IF fileExt \in {"mp4"} THEN "video"
    ELSE "file"

\* the local files of the media model: a missing one, and for each extension
\* one at the ceiling of its type and one a byte over it
MediaFiles ==
    { [exists |-> FALSE, fileExt |-> "pdf", size |-> 0] } \cup
    { [exists |-> TRUE, fileExt |-> x,
       size |-> sizeLimits(finalMediaTypeOf("file", x)) + d] :
          x \in {"png", "mp3", "mp4", "pdf"}, d \in {0, 1} }

\* the targets of sendFileMessage, in pieces
Targets == { <<"cid", "group1">>, <<"user1">>, <<"user", "cid">> }

\* the answers to the upload request: errcode 0 with a media id, a non-zero
\* errcode, errcode 0 without media id, an HTTP error
UploadAnswers == {"media_id", "errcode", "no_media_id", "error"}

\* (mutant) any target that has 'cid' in it is a group
isGroup_Includes(target) == \E i \in 1..Len(target) : target[i] = "cid"

\* target.startsWith('cid')
isGroup(target) == target # <<>> /\ Head(target) = "cid"

\* the request of sendFileMessage
FileMessageRequest(target) ==
    [ kind |-> "POST",
      arg |-> IF isGroup(target)
              THEN <<"groupMessages/send", "sampleFile", "openConversationId">> \o target
              ELSE <<"oToMessages/batchSend", "sampleFile", "userIds">> \o target ]

\* a request of the token, the upload or the file message
Request(url) == [kind |-> "POST", arg |-> <<url>>]

\* the answer to the upload request or the failure of a token request
Answer(what) == [kind |-> "answer", arg |-> <<what>>]

\* (mutant) an exception inside uploadMedia leaves it
UploadReturnsNull_Throws(r) == [r EXCEPT !.pc = "done", !.result = "threw"]

\* uploadMedia returns null; sendFileMessage throws on it
UploadReturnsNull(r) ==
    [r EXCEPT !.pc = "done",
              !.result = IF r.fn = "uploadMedia" THEN "null" ELSE "threw"]

\* what follows getAccessToken in the same turn, given the run and the log:
\* in uploadMedia the checks of the file and the upload request, in
\* sendFileMessage the request of the file message
AfterToken(r, log) ==
    IF r.phase = "send"
    THEN [run |-> [r EXCEPT !.pc = "send"],
          effects |-> Append(log, FileMessageRequest(r.target))]
    ELSE IF ~r.file.exists
    THEN [run |-> UploadReturnsNull(r), effects |-> log]
    ELSE IF r.file.size > sizeLimits(finalMediaTypeOf(r.mediaType, r.file.fileExt))
    THEN [run |-> UploadReturnsNull(r), effects |-> log]
    ELSE [run |-> [r EXCEPT !.pc = "upload"],
          effects |-> Append(log, Request("media/upload"))]

\* getAccessToken inside the run: the cached token, or the token request
WithToken(r, log) ==
    IF TokenCached
    THEN AfterToken(r, log)
    ELSE [run |-> [r EXCEPT !.pc = "token", !.attempt = 1, !.tokenNow = now],
          effects |-> Append(log, Request("oauth2/accessToken"))]

\* a call of uploadMedia or sendFileMessage, up to its first await that
\* leaves the turn
StartMedia(fn, target, mediaType, file) ==
    /\ run.pc \in {"idle", "done"}
    /\ LET r == [ pc |-> "start", fn |-> fn, target |-> target,
                  mediaType |-> mediaType, file |-> file, phase |-> "upload",
                  attempt |-> 0, tokenNow |-> 0, result |-> "",
                  n |-> IF run.pc = "idle" THEN 1 ELSE run.n + 1 ]
           next == WithToken(r, <<>>)
       IN /\ r.n <= MaxMediaRuns
          /\ run' = next.run
          /\ effects' = next.effects
    /\ UNCHANGED <<now, nextTimer, mergeVars, cardVars, stopped, files>>

uploadMedia(mediaType, file) == StartMedia("uploadMedia", <<>>, mediaType, file)

sendFileMessage(target, file) == StartMedia("sendFileMessage", target, "file", file)

\* the token request of the run succeeds
MediaTokenOk(expireIn) ==
    /\ run.pc = "token"
    /\ accessToken' = nextCall
    /\ nextCall' = nextCall + 1
    /\ accessTokenExpiry' = run.tokenNow + expireIn * 1000
    /\ LET next == AfterToken(run, effects)
       IN run' = next.run /\ effects' = next.effects
    /\ UNCHANGED <<now, nextTimer, mergeVars, cardInstances, cardUpdateTimestamps,
                   cardUpdateTimeouts, cardTimers, cleanupIntervalId, calls,
                   cardPuts, stopped, files>>

\* the token request of the run fails: retryWithBackoff waits and sends it
\* again, or throws; in uploadMedia the exception is caught, in the second
\* phase of sendFileMessage it leaves the function
MediaTokenError(statusCode) ==
    /\ run.pc = "token"
    /\ IF isRetryable(statusCode) /\ run.attempt # MAX_RETRIES
       THEN /\ now' = now + delayMs(run.attempt)
            /\ run' = [run EXCEPT !.attempt = @ + 1]
            /\ effects' = effects \o <<Answer("token error"),
                                        Request("oauth2/accessToken")>>
       ELSE /\ now' = now
            /\ run' = IF run.phase = "upload"
                      THEN UploadReturnsNull(run)
                      ELSE [run EXCEPT !.pc = "done", !.result = "threw"]
            /\ effects' = Append(effects, Answer("token error"))
    /\ UNCHANGED <<nextTimer, mergeVars, cardVars, stopped, files>>

\* the upload request is answered: uploadMedia returns the media id or null;
\* sendFileMessage throws on null, and otherwise gets the token again and
\* sends the file message
UploadAnswered(answer) ==
    /\ run.pc = "upload"
    /\ LET log == Append(effects, Answer(answer))
           next == IF answer # "media_id"
                   THEN [run |-> UploadReturnsNull(run), effects |-> log]
                   ELSE IF run.fn = "uploadMedia"
                   THEN [run |-> [run EXCEPT !.pc = "done", !.result = "mediaId"],
                         effects |-> log]
                   ELSE WithToken([run EXCEPT !.phase = "send"], log)
       IN run' = next.run /\ effects' = next.effects
    /\ UNCHANGED <<now, nextTimer, mergeVars, cardVars, stopped, files>>

\* the file message request is answered
FileMessageAnswered(ok) ==
    /\ run.pc = "send"
    /\ run' = [run EXCEPT !.pc = "done", !.result = IF ok THEN "sent" ELSE "threw"]
    /\ UNCHANGED <<now, nextTimer, mergeVars, cardVars, stopped, effects, files>>

MediaNext ==
    \/ (run.pc \in {"idle", "done"} /\ \E mediaType \in {"file", "video"},
           file \in MediaFiles : uploadMedia(mediaType, file))
    \/ (run.pc \in {"idle", "done"} /\ \E target \in Targets, file \in MediaFiles :
           sendFileMessage(target, file))
    \/ \E e \in TokenExpireIns : MediaTokenOk(e)
    \/ \E sc \in RetryStatuses : MediaTokenError(sc)
    \/ \E answer \in UploadAnswers : UploadAnswered(answer)
    \/ \E ok \in BOOLEAN : FileMessageAnswered(ok)

MediaSpec == Init /\ [][MediaNext]_vars

(***************************************************************************)
(* Properties of uploadMedia and sendFileMessage                           *)
(***************************************************************************)
\* the run followed is a call of fn
MediaRun(fn) == run.pc \notin {"idle"} /\ run.fn = fn

\* the file of the run is missing or larger than the ceiling of its type
\* (image 2 MB, voice 2 MB, video 100 MB, file 20 MB)
MissingOrOversized ==
    \/ ~run.file.exists
    \/ LET t == finalMediaTypeOf(run.mediaType, run.file.fileExt)
       IN \/ t \in {"image", "voice"} /\ run.file.size > 2097152
          \/ t = "video" /\ run.file.size > 104857600
          \/ t = "file" /\ run.file.size > 20971520

\* the requests of the run, as positions of the log
Requests == { i \in 1..Len(effects) : effects[i].kind = "POST" }

\* C17 (as stated): uploadMedia on a missing or oversized file returns null
\* without any HTTP request, the token request included, whatever the state
\* of the token cache
C17_ChecksBeforeNetwork ==
    (MediaRun("uploadMedia") /\ MissingOrOversized)
        => /\ Requests = {}
           /\ run.pc = "done" => run.result = "null"

\* the last entry of the log
LastEffect == effects[Len(effects)]

\* C18: uploadMedia never throws for the expected failures: when the token
\* fetch fails, the upload request fails, or the answer has a non-zero
\* errcode or no media id, it returns null; it returns a media id only for an
\* answer with errcode 0 and a media id
C18_UploadNeverThrows ==
    (MediaRun("uploadMedia") /\ run.pc = "done")
        => /\ run.result \in {"null", "mediaId"}
           /\ run.result = "mediaId" <=>
                 (effects # <<>> /\ LastEffect = Answer("media_id"))
           /\ (effects # <<>> /\ LastEffect.kind = "answer"
                 /\ LastEffect.arg \in {<<"token error">>, <<"error">>,
                                        <<"errcode">>, <<"no_media_id">>})
                 => run.result = "null"

\* C18 witness: uploadMedia of a file that passes the checks has returned
\* null after the token was fetched and the upload was answered with an
\* error code
C18_Witness ==
    /\ MediaRun("uploadMedia") /\ run.pc = "done"
    /\ ~MissingOrOversized
    /\ run.result = "null"
    /\ Cardinality(Requests) = 2
    /\ LastEffect = Answer("errcode")

\* the positions of the log with the request of a file message
FileMessageRequests ==
    { i \in Requests : Len(effects[i].arg) > 1 /\ effects[i].arg[2] = "sampleFile" }

\* the positions of the log with the answer that carries a media id
MediaIdAnswers == { i \in 1..Len(effects) : effects[i] = Answer("media_id") }

\* C19: sendFileMessage uploads first and then sends exactly one file message
\* (msgKey sampleFile): to the group endpoint with openConversationId = target
\* when the target starts with 'cid', otherwise to the one-to-one endpoint
\* with userIds = [target]; when the upload returns null it throws and sends
\* no file message
C19_UploadThenOneMessage ==
    MediaRun("sendFileMessage")
        => /\ Cardinality(FileMessageRequests) <= 1
           /\ \A i \in FileMessageRequests :
                 /\ \E a \in MediaIdAnswers : a < i
                 /\ effects[i].arg =
                       IF run.target[1] = "cid"
                       THEN <<"groupMessages/send", "sampleFile", "openConversationId">>
                               \o run.target
                       ELSE <<"oToMessages/batchSend", "sampleFile", "userIds">>
                               \o run.target
           /\ run.pc = "send" => Cardinality(FileMessageRequests) = 1
           /\ (run.pc = "done" /\ run.result = "sent")
                 => Cardinality(FileMessageRequests) = 1
           /\ (run.pc = "done" /\ MediaIdAnswers = {})
                 => run.result = "threw" /\ FileMessageRequests = {}

\* C19 witness: a file message to a group was sent after the token request,
\* the upload and its answer
C19_Witness ==
    /\ MediaRun("sendFileMessage")
    /\ run.pc = "done" /\ run.result = "sent"
    /\ run.target[1] = "cid"
    /\ Len(effects) = 4
    /\ effects[2] = Request("media/upload")
    /\ effects[3] = Answer("media_id")
    /\ effects[4].arg[1] = "groupMessages/send"

(***************************************************************************)
(* The reply dispatcher's text path                                        *)
(***************************************************************************)
\* the calls deliver has made for the text of a chunk
ReplyTextCalls == { i \in 1..Len(effects) : effects[i].arg = <<"reply">> }

\* C21 (as stated): in card mode the text of each chunk goes to the card
\* already created through updateInteractiveCardThrottled (a first chunk
\* without a card creates one), in non-card mode through sendBySession
C21_CardTextThroughThrottle ==
    run.pc # "idle" =>
        \A i \in ReplyTextCalls :
            IF run.cfg.messageType = "card"
            THEN effects[i].kind \in {"updateInteractiveCardThrottled",
                                      "sendInteractiveCard"}
            ELSE effects[i].kind = "sendBySession"

(***************************************************************************)
(* Properties of a flush                                                   *)
(***************************************************************************)
\* C22 (as stated): a flush whose merged text is empty after concatenation
\* (every buffered event without extractable text) is dropped by the pipeline
\* without error: the run returns, and no route is resolved, no session
\* recorded, no acknowledgement sent and no reply dispatched
C22_EmptyMergedTextAborts ==
    (run.pc # "idle" /\ MergedText(run.messages) = <<>>)
        => /\ run.pc = "returned"
           /\ effects = <<>>

\* the references with the first occurrence of each download identifier kept
RECURSIVE KeepFirst(_, _)
KeepFirst(seen, all) ==
    IF all = <<>> THEN <<>>
    ELSE IF Head(all).downloadCode \in seen THEN KeepFirst(seen, Tail(all))
    ELSE <<Head(all)>> \o KeepFirst(seen \cup {Head(all).downloadCode}, Tail(all))

\* C23 (as stated): the media references a flush hands to the pipeline are
\* those of its buffered events with one item per distinct download
\* identifier, in order of first appearance, each item being the first
\* reference that carries the identifier (its file name and type)
C23_DedupKeepsFirst ==
    run.pc # "idle" => run.mediaFiles = KeepFirst({}, allMediaFiles(run.messages))

(***************************************************************************)
(* The carrier of a flush                                                  *)
(***************************************************************************)
\* a step that flushes the entry of key k: the entry leaves the cache, and
\* not by the sweep
Flushes(k) ==
    /\ k \in DOMAIN messageMergeCache
    /\ k \notin DOMAIN messageMergeCache'
    /\ mergeSweepAt' = mergeSweepAt

\* every step that flushes an entry calls the pipeline once, with all events
\* of the entry (on the cap: the event just taken included), and with the
\* data of the entry's first event; no other step calls the pipeline
C24_FlushCallsOnce ==
    /\ \A k \in DOMAIN messageMergeCache :
          Flushes(k) =>
             /\ Len(pipelineCalls') = Len(pipelineCalls) + 1
             /\ LET call == pipelineCalls'[Len(pipelineCalls')]
                    buffered == messageMergeCache[k].messages
                IN /\ call.key = k
                   /\ call.data = buffered[1].data
                   /\ IF inbound' = inbound
                      THEN call.messages = buffered
                      ELSE /\ Len(call.messages) = Len(buffered) + 1
                           /\ SubSeq(call.messages, 1, Len(buffered)) = buffered
                           /\ call.messages[Len(call.messages)].data
                                = inbound'[Len(inbound')].data
    /\ pipelineCalls' # pipelineCalls => \E k \in DOMAIN messageMergeCache : Flushes(k)

\* the envelope the pipeline gets is that of the first event of the call:
\* its sender and conversation (the cache key), message id and timestamp
C24_Carrier ==
    \A i \in 1..Len(pipelineCalls) :
        LET call == pipelineCalls[i]
            first == call.messages[1].data
        IN /\ call.data.key = first.key /\ first.key = call.key
           /\ call.data.msgId = first.msgId
           /\ call.data.createAt = first.createAt
           /\ \A j \in 2..Len(call.messages) :
                 call.messages[j].data.msgId > first.msgId

\* C24: on every flush, by the window timer or by the cap, the pipeline is
\* called once with all buffered events of the entry and with the first
\* buffered event's data (sender, conversation, message id, timestamp) as
\* the carrier, whichever event triggered the flush
C24_FirstEventCarries == []C24_Carrier /\ [][C24_FlushCallsOnce]_vars

\* C24 witness: a cap flush was triggered by an event taken later than the
\* first one of its entry, and the call carries the first event's id and
\* timestamp, not those of the event that triggered it
C24_Witness ==
    \E i \in 1..Len(pipelineCalls) :
        /\ pipelineCalls[i].via = "max"
        /\ pipelineCalls[i].params # pipelineCalls[i].data.msgId
        /\ pipelineCalls[i].at > pipelineCalls[i].data.createAt
        /\ pipelineCalls[i].data.createAt = pipelineCalls[i].messages[1].data.createAt

(***************************************************************************)
(* The merge sweep with late timers: the event loop may be busy past a     *)
(* deadline, and the callbacks that are due then run in order of expiry    *)
(***************************************************************************)
\* bound: inbound events in one behaviour of the sweep model
MaxSweptEvents == 3

\* the times, besides the start, at which events arrive in the sweep model:
\* 1000 ms and 700 ms before the first run of the sweep is due
ArrivalTimes == { StartTime + MERGE_SWEEP_INTERVAL_MS - 1000,
                  StartTime + MERGE_SWEEP_INTERVAL_MS - 700 }

\* the time for which the loop is busy without running a callback
StallSteps == {9900}

\* no callback is overdue
OnTime == \A d \in MergeDeadlines : now <= d

\* the callback with deadline at is the first to run: none is due earlier
DueFirst(at) == \A d \in MergeDeadlines : at <= d

SweepInbound(k, blank) ==
    /\ nextMsgId <= MaxSweptEvents
    /\ OnTime
    /\ handleDingTalkMessage(k, blank)

LateTimerFires(t) == DueFirst(t.at) /\ MergeTimerFires(t)

LateSweep == DueFirst(mergeSweepAt) /\ MergeSweep

\* time passes until the next arrival, not beyond the next deadline
SweepPass(at) ==
    /\ at > now
    /\ \A d \in MergeDeadlines : at <= d
    /\ now' = at
    /\ UNCHANGED <<nextTimer, mergeVars, cardVars, chanVars>>

\* the loop is busy for d ms, whatever falls due meanwhile
SweepStall(d) ==
    /\ MergeSweepArmed
    /\ OnTime
    /\ messageMergeCache # EmptyMap
    /\ now' = now + d
    /\ UNCHANGED <<nextTimer, mergeVars, cardVars, chanVars>>

SweepNext ==
    \/ \E k \in KeysOf(nextMsgId), b \in BlanksOf(nextMsgId) : SweepInbound(k, b)
    \/ \E t \in mergeTimers : LateTimerFires(t)
    \/ LateSweep
    \/ \E at \in ArrivalTimes : SweepPass(at)
    \/ \E d \in StallSteps : SweepStall(d)
    \/ MergeIdle

SweepSpec == Init /\ [][SweepNext]_vars

\* the events taken that are neither buffered nor handed to the pipeline
LostEvents ==
    { i \in 1..Len(inbound) :
        /\ \A k \in DOMAIN messageMergeCache :
              ~InSeq(inbound[i].data.msgId, MsgIds(messageMergeCache[k].messages))
        /\ \A c \in 1..Len(pipelineCalls) :
              ~InSeq(inbound[i].data.msgId, MsgIds(pipelineCalls[c].messages)) }

\* a run of the sweep removes the entries older than 10 s and disarms their
\* timers, leaves the other entries and all other timers as they are, and
\* calls nothing
C25_SweepStep ==
    mergeSweepAt' # mergeSweepAt =>
        /\ DOMAIN messageMergeCache' =
              { k \in DOMAIN messageMergeCache :
                  now - messageMergeCache[k].startTime <= MERGE_STALE_AGE_MS }
        /\ \A k \in DOMAIN messageMergeCache' :
              messageMergeCache'[k] = messageMergeCache[k]
        /\ mergeTimers' =
              { t \in mergeTimers :
                  t.cacheKey \in DOMAIN messageMergeCache' }
        /\ pipelineCalls' = pipelineCalls

\* the events of a swept entry never reach the pipeline, and every armed
\* timer belongs to the entry now buffered under its key
C25_SweptStaysSwept ==
    /\ LostEvents \subseteq LostEvents'
    /\ \A t \in mergeTimers' :
          /\ t.cacheKey \in DOMAIN messageMergeCache'
          /\ messageMergeCache'[t.cacheKey].timer = t.id

\* C25: each run of the merge sweep removes every entry older than 10 s and
\* cancels its window timer, leaves every younger entry with its messages and
\* timer unchanged, and the timer of a swept entry never calls the pipeline
C25_SweepRemovesStaleOnly == [][C25_SweepStep /\ C25_SweptStaysSwept]_vars

\* C25 witness: the sweep has run late, removed an entry of 10.2 s whose
\* events are lost, and kept the entry of 9.9 s under the other key
C25_Witness ==
    /\ ~MergeSweepArmed
    /\ LostEvents # {}
    /\ \E k \in DOMAIN messageMergeCache :
          /\ now - messageMergeCache[k].startTime = 9900
          /\ \E t \in mergeTimers : t.id = messageMergeCache[k].timer /\ t.at < now

(***************************************************************************)
(* The card registry and its sweep                                         *)
(***************************************************************************)
\* bound: the calls of updateInteractiveCardThrottled in the registry model
MaxSweptUpdates == 2

\* the cards of the registry model
SweptCards == {"card_1", "card_2"}

\* deadlines of the card timers and of the sweep interval
RegistryDeadlines ==
    { t.at : t \in cardTimers } \cup
    (IF CardSweepArmed THEN {cleanupIntervalId} ELSE {})

\* nothing happens until the next deadline
RegistryIdle ==
    /\ RegistryDeadlines # {}
    /\ SetMin(RegistryDeadlines) > now
    /\ now' = SetMin(RegistryDeadlines)
    /\ UNCHANGED <<nextTimer, mergeVars, cardVars, chanVars>>

\* the times at which cards are sent and updated in the registry model: at
\* the start and when the third run of the sweep is due
CallTimes == { StartTime, StartTime + 3 * CARD_CLEANUP_INTERVAL }

\* every request is answered with 200, at any later time
RegistryNext ==
    \/ \E c \in SweptCards : now \in CallTimes /\ sendInteractiveCard(c)
    \/ \E c \in SweptCards :
          /\ now \in CallTimes
          /\ Cardinality({ id \in DOMAIN calls : calls[id].op = "update" })
                < MaxSweptUpdates
          /\ updateInteractiveCardThrottled(c)
    \/ \E t \in cardTimers : ScheduledUpdateFires(t)
    \/ \E t \in cardTimers : InactivityFires(t)
    \/ \E id \in DOMAIN calls, e \in ExpireIns : TokenResponseOk(id, e)
    \/ \E id \in DOMAIN calls : HttpResponseOk(id)
    \/ cleanupCardCache
    \/ RegistryIdle

RegistrySpec == Init /\ [][RegistryNext]_vars

\* the throttle and inactivity timers armed for card c
PendingTimers(c) ==
    { t \in cardTimers : t.card = c /\ t.kind \in {"scheduled", "inactivity"} }

\* what the throttle keeps for card c
ThrottleStateOf(c) ==
    << IF c \in DOMAIN cardUpdateTimestamps THEN {cardUpdateTimestamps[c]} ELSE {},
       IF c \in DOMAIN cardUpdateTimeouts THEN {cardUpdateTimeouts[c]} ELSE {} >>

\* C26: a run of the card sweep removes every CardInstance whose lastUpdated
\* is more than the TTL of 1 hour ago, with its throttle timestamp and its
\* pending throttle or inactivity timer, which is cancelled; every other card
\* keeps its instance, timestamp, handle and timers; removing a swept id once
\* more, or sweeping again at once, changes nothing
C26_SweepStep ==
    (cleanupIntervalId' # cleanupIntervalId /\ cleanupIntervalId' # 0) =>
        LET expired == { c \in DOMAIN cardInstances :
                           now - cardInstances[c].lastUpdated > CARD_CACHE_TTL }
        IN /\ DOMAIN cardInstances' = DOMAIN cardInstances \ expired
           /\ \A c \in expired :
                 /\ ThrottleStateOf(c)' = <<{}, {}>>
                 /\ PendingTimers(c)' = {}
                 /\ MapDelete(cardInstances', c) = cardInstances'
           /\ \A c \in SweptCards \ expired :
                 /\ c \in DOMAIN cardInstances => cardInstances'[c] = cardInstances[c]
                 /\ ThrottleStateOf(c)' = ThrottleStateOf(c)
                 /\ PendingTimers(c)' = PendingTimers(c)
           /\ { c \in DOMAIN cardInstances' :
                  now' - cardInstances'[c].lastUpdated > CARD_CACHE_TTL } = {}
           /\ cardPuts' = cardPuts

C26_SweepRemovesExpiredOnly == [][C26_SweepStep]_vars

\* C26 witness: the sweep has removed a card together with its timestamp and
\* has cancelled its scheduled update, while the other card is still there
C26_Witness ==
    \E c \in SweptCards, d \in SweptCards :
        /\ c \in IssuedCards /\ c \notin DOMAIN cardInstances
        /\ c \notin DOMAIN cardUpdateTimestamps
        /\ \E id \in DOMAIN calls : calls[id].card = c /\ calls[id].cleared = "sweep"
        /\ d \in DOMAIN cardInstances

(***************************************************************************)
(* Which failures retryWithBackoff retries                                 *)
(***************************************************************************)
\* a transient failure: a network error or timeout without HTTP status (0),
\* or HTTP 401, 429 or 5xx
Transient(statusCode) ==
    statusCode = 0 \/ statusCode = 401 \/ statusCode = 429 \/ statusCode >= 500

\* C27 (as stated): retryWithBackoff retries a failed call exactly when the
\* failure is transient, so a transient failure reaches the caller only from
\* the last of the 3 attempts, and a retry is only ever armed for one
C27_TransientRetried ==
    \A id \in DOMAIN calls :
        /\ (calls[id].pc = "rejected" /\ Transient(calls[id].status))
              => calls[id].attempt = MAX_RETRIES
        /\ calls[id].pc \in {"tokenBackoff", "httpBackoff"}
              => Transient(calls[id].status)

(***************************************************************************)
(* Failures the pipeline swallows                                          *)
(***************************************************************************)
\* the step in which the denial notice or the thinking feedback settles:
\* sent or failed, the denied run returns without doing anything more, and
\* the admitted run creates the reply dispatcher and dispatches the reply
C28_NoticeSettles ==
    /\ (run.pc = "denial" /\ run'.pc # "denial")
          => run'.pc = "returned" /\ effects' = effects
    /\ (run.pc = "ack" /\ run'.pc # "ack")
          => /\ run'.pc = "dispatch"
             /\ effects' = effects \o
                  << [kind |-> "createReplyDispatcherWithTyping", arg |-> <<>>],
                     [kind |-> "dispatchReplyFromConfig", arg |-> <<>>] >>
             /\ run'.currentCardBizId
                  = (run.cfg.messageType = "card" /\ run'.logged = run.logged)

\* a run that ends by an exception has thrown from recordInboundSession or
\* from the dispatch, after the finally block, never from a notice
C28_ThrowsElsewhere ==
    run.pc = "threw" =>
        LET last == effects[Len(effects)]
        IN /\ last.kind \in {"recordInboundSession", "cleanupSessionMedia"}
           /\ last.arg \notin { <<"thinking">>, DenialText(run.data.senderId) }

\* C28: a failure to send the denial notice or the thinking feedback (text
\* or card) is caught and logged, never leaves the pipeline, and after a
\* failed thinking feedback the reply dispatcher is still created and the
\* reply dispatched
C28_NoticeFailureSwallowed == []C28_ThrowsElsewhere /\ [][C28_NoticeSettles]_vars

\* C28 witness: the thinking card could not be sent, the failure was logged,
\* the reply was dispatched all the same, its first chunk went out as a new
\* card, and the run has returned
C28_Witness ==
    /\ run.pc = "returned"
    /\ run.logged = <<"thinking">>
    /\ run.cfg.messageType = "card"
    /\ Len(run.results) > 0 /\ run.results[1].ok
    /\ \E i \in ReplyTextCalls : effects[i].kind = "sendInteractiveCard"

\* a denied run whose denial notice failed has returned
C28_DenialFailed ==
    /\ run.pc = "returned"
    /\ run.denied
    /\ run.logged = <<"denial">>

(***************************************************************************)
(* Media files of a chunk                                                  *)
(***************************************************************************)
\* the steps of deliver around the media files: a payload with media starts
\* with its first file, and the text is only called first when there is no
\* media; when a file has settled, sent or failed, the next file is sent, or
\* after the last one the text, or deliver returns ok
C29_MediaStep ==
    /\ (run.pc = "dispatch" /\ run'.pc = "deliverMedia")
          => /\ run'.sent = 1
             /\ effects' = Append(effects, [kind |-> "sendFileMessage",
                                            arg |-> <<"media">>])
    /\ (run.pc = "dispatch" /\ run'.pc = "deliverText")
          => MediaCount(run'.payload) = 0
    /\ (run.pc = "deliverMedia" /\ run' # run)
          => IF run.sent < MediaCount(run.payload)
             THEN /\ run'.pc = "deliverMedia"
                  /\ run'.sent = run.sent + 1
                  /\ effects' = Append(effects, [kind |-> "sendFileMessage",
                                                 arg |-> <<"media">>])
             ELSE IF run.payload.text
             THEN /\ run'.pc = "deliverText"
                  /\ effects' = Append(effects, [kind |-> TextCall(run),
                                                 arg |-> <<"reply">>])
             ELSE /\ run'.pc = "dispatch"
                  /\ run'.results = Append(run.results, [ok |-> TRUE, error |-> ""])
                  /\ effects' = effects

\* while the text is on its way every media file of the chunk has been
\* sent; the outcome of a chunk is a failure only if its text call failed
C29_TextLast ==
    /\ run.pc = "deliverText" => run.sent = MediaCount(run.payload)
    /\ run.pc \in {"dispatch", "returned", "threw"} /\ run.results # <<>>
          => (run.failures = 0 => \A i \in 1..Len(run.results) : run.results[i].ok)

\* C29: for each chunk deliver sends all media files before the text; a file
\* that fails stops neither the remaining files nor the text, and does not
\* make the chunk's outcome a failure
C29_MediaFirstBestEffort == []C29_TextLast /\ [][C29_MediaStep]_vars

\* C29 witness: of the two files of a chunk the first failed; the second file
\* and then the text were sent, and deliver returned ok
C29_Witness ==
    /\ run.pc = "dispatch"
    /\ run.payload.text /\ run.payload.mediaUrls = 2
    /\ run.mediaFailed = {1}
    /\ run.sent = 2
    /\ run.results # <<>> /\ run.results[Len(run.results)].ok
    /\ Len(effects) >= 3
    /\ effects[Len(effects) - 2].kind = "sendFileMessage"
    /\ effects[Len(effects) - 1].kind = "sendFileMessage"
    /\ effects[Len(effects)].arg = <<"reply">>

(***************************************************************************)
(* The end of the dispatch                                                 *)
(***************************************************************************)
\* how often the run has called the function named kind
Count(kind) == Cardinality({ i \in 1..Len(effects) : effects[i].kind = kind })

\* the run has reached the dispatch of the reply
ReachedDispatch == Count("dispatchReplyFromConfig") > 0

\* the step in which dispatchReplyFromConfig settles, by returning or by
\* throwing: the dispatch is marked idle and the media cleanup is run for the
\* session of the run's route
C30_DispatchSettles ==
    (run.pc \in {"dispatch", "deliverMedia", "deliverText"}
        /\ run'.pc \in {"returned", "threw"})
        => /\ run.pc = "dispatch"
           /\ effects' = effects \o
                << [kind |-> "markDispatchIdle", arg |-> <<>>],
                   [kind |-> "cleanupSessionMedia", arg |-> run.route.sessionKey] >>

\* a run that has ended after reaching the dispatch has marked it idle once
\* and run the cleanup once, for its own session; no other run has done either
C30_IdleOnce ==
    run.pc # "idle" =>
        /\ Count("markDispatchIdle") = Count("cleanupSessionMedia")
        /\ Count("markDispatchIdle") =
              (IF ReachedDispatch /\ run.pc \in {"returned", "threw"} THEN 1 ELSE 0)
        /\ \A i \in 1..Len(effects) :
              effects[i].kind = "cleanupSessionMedia" =>
                 effects[i].arg = <<"session:">> \o
                    (IF run.data.conversationType = "1" THEN run.data.senderId
                     ELSE <<"groupId">>)

\* C30: for every run that reaches the reply dispatch, when the dispatch
\* completes, by returning or by throwing, the dispatch is marked idle
\* exactly once and the media cleanup is run for the run's session
C30_FinallyIdleAndCleanup == []C30_IdleOnce /\ [][C30_DispatchSettles]_vars

\* C30 witness: the dispatch threw after a chunk was delivered; the dispatch
\* was marked idle and the cleanup run, last of all
C30_Witness ==
    /\ run.pc = "threw"
    /\ ReachedDispatch
    /\ run.results # <<>>
    /\ Count("markDispatchIdle") = 1
    /\ effects[Len(effects)].kind = "cleanupSessionMedia"
    /\ effects[Len(effects) - 1].kind = "markDispatchIdle"

(***************************************************************************)
(* Session media: where the downloads go and what the cleanup removes      *)
(***************************************************************************)
\* the files in the directory the cleanup of the run's session scans
InSweptDir(f) ==
    /\ Len(f) > 1
    /\ dirname(f) = SessionMediaDir(run.storePath, run.route.sessionKey)

\* the finally block of the run has just run its cleanup
CleanupRan ==
    /\ run.pc \in {"returned", "threw"}
    /\ effects # <<>>
    /\ effects[Len(effects)].kind = "cleanupSessionMedia"

\* every file a run of the session has downloaded lies in the directory the
\* session's cleanup scans
C31_StoredWhereSwept ==
    run.pc \notin {"idle"} =>
        \A i \in 1..Len(run.downloadedMediaFiles) :
            InSweptDir(run.downloadedMediaFiles[i].path)

\* after a cleanup of the session no downloaded file older than the retention
\* is left
C31_ExpiredGone ==
    CleanupRan => \A f \in DOMAIN files : ~(files[f].mtime < now - 2 * SessionTimeout)

\* the cleanup keeps the files younger than the retention
C31_YoungKept ==
    \A f \in DOMAIN files :
        (files[f].mtime >= now' - 2 * SessionTimeout /\ run'.pc \in {"returned", "threw"})
            => f \in DOMAIN files'

\* C31: every media file the pipeline downloads for a session is stored where
\* the session's cleanup scans, so that a cleanup run deletes it once it is
\* older than the retention (twice the session timeout) and keeps it while
\* it is younger
C31_DownloadsSweptAfterRetention ==
    /\ []C31_StoredWhereSwept
    /\ []C31_ExpiredGone
    /\ [][C31_YoungKept]_vars

(***************************************************************************)
(* Session media: the paths of the files of one run                        *)
(***************************************************************************)
\* the downloaded files of the run have paths of their own
C40_DistinctPaths ==
    run.pc # "idle" =>
        \A i, j \in 1..Len(run.downloadedMediaFiles) :
            i # j => run.downloadedMediaFiles[i].path # run.downloadedMediaFiles[j].path

\* a step of the run leaves the files it has downloaded so far as they are
C40_NoOverwrite ==
    (run.pc # "idle" /\ run'.pc # "idle") =>
        \A i \in 1..Len(run.downloadedMediaFiles) :
            LET p == run.downloadedMediaFiles[i].path
            IN p \in DOMAIN files' /\ files'[p].data = files[p].data

\* C40: within one pipeline run, media references with distinct download
\* identifiers are saved to distinct local paths: no downloaded file of a
\* merged message overwrites another file of the same message, and the media
\* list of the context names one intact file for each downloaded reference
C40_DistinctCodesDistinctPaths ==
    []C40_DistinctPaths /\ [][C40_NoOverwrite]_vars

(***************************************************************************)
(* The card registry under failures                                        *)
(***************************************************************************)
\* bound: the direct updates of the registry-frame model
MaxFrameUpdates == 1

\* the error statuses of the registry-frame model: the terminal ones and a
\* retryable one
FrameStatuses == TerminalStatuses \cup {500}

\* create and update requests that succeed or fail, retries, and the sweep
FrameNext ==
    \/ \E c \in Cards : now \in CallTimes /\ sendInteractiveCard(c)
    \/ \E c \in Cards :
          /\ now \in CallTimes
          /\ Cardinality({ id \in DOMAIN calls : calls[id].op = "update" })
                < MaxFrameUpdates
          /\ updateInteractiveCard(c)
    \/ \E t \in cardTimers : BackoffFires(t)
    \/ \E id \in DOMAIN calls, e \in ExpireIns : TokenResponseOk(id, e)
    \/ \E id \in DOMAIN calls : HttpResponseOk(id)
    \/ \E id \in DOMAIN calls, sc \in FrameStatuses : HttpResponseError(id, sc)
    \/ cleanupCardCache
    \/ RegistryIdle

FrameSpec == Init /\ [][FrameNext]_vars

\* in this step the request of call id, of the given kind and for card c,
\* settles in the given way
Settles(id, op, c, pc) ==
    /\ id \in DOMAIN calls
    /\ calls[id].op = op /\ calls[id].card = c
    /\ calls[id].pc = "http"
    /\ calls'[id].pc = pc

\* what a step may do to the registry entry of card c
C32_CardStep(c) ==
    /\ (c \notin DOMAIN cardInstances /\ c \in DOMAIN cardInstances')
          => \E id \in DOMAIN calls : Settles(id, "send", c, "resolved")
    /\ (c \in DOMAIN cardInstances /\ c \in DOMAIN cardInstances'
           /\ cardInstances'[c] # cardInstances[c])
          => /\ cardInstances'[c].createdAt = cardInstances[c].createdAt
             /\ \E id \in DOMAIN calls : Settles(id, "update", c, "resolved")
    /\ (c \in DOMAIN cardInstances /\ c \notin DOMAIN cardInstances')
          => \/ /\ cleanupIntervalId' # cleanupIntervalId
                /\ now - cardInstances[c].lastUpdated > CARD_CACHE_TTL
             \/ \E id \in DOMAIN calls :
                   /\ Settles(id, "update", c, "rejected")
                   /\ calls'[id].status \in TerminalStatuses

\* a create that fails, and an update that fails with another error than the
\* terminal ones (or is about to be retried), leave the registry as it is
C32_FailureStep ==
    \A id \in DOMAIN calls :
        (/\ calls[id].pc = "http"
         /\ calls'[id].pc \in {"rejected", "httpBackoff"}
         /\ (calls[id].op = "send" \/ calls'[id].status \notin TerminalStatuses))
            => cardInstances' = cardInstances

\* C32: a card enters the registry only when its create request succeeds, its
\* lastUpdated changes only when an update succeeds, and it leaves only by
\* the TTL sweep or by an update that fails with 404, 410 or 403; a failed
\* create and an update failing otherwise leave the registry unchanged
C32_RegistryFrame ==
    [][(\A c \in Cards : C32_CardStep(c)) /\ C32_FailureStep]_vars

\* C32 witness: the card was created; an update of it failed with 500 after
\* its retries and left it registered as it was
C32_Witness ==
    \E j, u \in DOMAIN calls :
        /\ calls[j].op = "send" /\ calls[j].pc = "resolved"
        /\ calls[u].op = "update" /\ calls[u].card = calls[j].card
        /\ calls[u].pc = "rejected" /\ calls[u].status = 500
        /\ calls[u].attempt = MAX_RETRIES
        /\ calls[j].card \in DOMAIN cardInstances
        /\ cardInstances[calls[j].card].lastUpdated = calls[j].doneAt

(***************************************************************************)
(* Settling of the throttled updates                                       *)
(***************************************************************************)
\* the throttle with its timers firing, its requests answered and time
\* passing; new calls and stop() come or not
ThrottleFairSpec ==
    /\ ThrottleSpec
    /\ WF_vars(\E t \in cardTimers : ScheduledUpdateFires(t) \/ InactivityFires(t))
    /\ WF_vars(\E id \in DOMAIN calls :
                  \/ \E e \in ExpireIns : TokenResponseOk(id, e)
                  \/ HttpResponseOk(id))
    /\ WF_vars(ThrottleTick \/ ThrottleIdle)

\* the ids of the calls of a behaviour
CallIds == 1..(MaxCalls + Cardinality(Cards))

\* the promise of call id has resolved or rejected
Settled(id) == id \in DOMAIN calls /\ calls[id].pc \in {"resolved", "rejected"}

\* C33: every call of updateInteractiveCardThrottled eventually settles, also
\* when its scheduled slot is replaced by a later call for the card, removed
\* by the sweep of the registry, or cleared by the gateway's stop
C33_EveryCallSettles ==
    \A id \in CallIds :
        (id \in UpdateCalls) ~> Settled(id)

\* the calls whose timer nobody cleared do settle
C33_UnclearedCallsSettle ==
    \A id \in CallIds :
        (id \in UpdateCalls) ~> (Settled(id) \/ (id \in DOMAIN calls /\ calls[id].cleared # ""))

(***************************************************************************)
(* Every accepted event reaches the pipeline once                          *)
(***************************************************************************)
\* C34: every event handleDingTalkMessage has taken is still buffered, or
\* has been handed to the pipeline in exactly one call: no event is dropped
\* and none is delivered twice, whatever the order of arrivals, window
\* timers, cap flushes and sweeps of stale entries
C34_DeliveredExactlyOnce ==
    \A i \in 1..Len(inbound) :
        \/ Buffered(i) /\ CallsWith(i) = {}
        \/ ~Buffered(i) /\ Cardinality(CallsWith(i)) = 1

(***************************************************************************)
(* The session webhook a flush replies through                             *)
(***************************************************************************)
\* C39: every pipeline call, started by the window timer or by the cap,
\* replies through the session webhook of the first event of its entry, the
\* event whose data it carries, also when the buffered events have different
\* session webhooks
C39_FirstEventWebhook ==
    \A c \in 1..Len(pipelineCalls) :
        /\ pipelineCalls[c].data = pipelineCalls[c].messages[1].data
        /\ pipelineCalls[c].sessionWebhook
               = pipelineCalls[c].messages[1].data.sessionWebhook

\* the same on the window timer's path alone
C39_TimerPathFirstEventWebhook ==
    \A c \in 1..Len(pipelineCalls) :
        pipelineCalls[c].via = "timer"
            => pipelineCalls[c].sessionWebhook
                   = pipelineCalls[c].messages[1].data.sessionWebhook

(***************************************************************************)
(* The shape of an open merge entry and its window                         *)
(***************************************************************************)
\* C38: every open merge entry holds at least 1 and fewer than 5 messages
\* and has exactly one armed window timer, the one its timer field names;
\* no armed window timer is without an entry
C38_EntryShape ==
    /\ \A k \in DOMAIN messageMergeCache :
          /\ Len(messageMergeCache[k].messages) >= 1
          /\ Len(messageMergeCache[k].messages) < MESSAGE_MERGE_MAX_MESSAGES
          /\ Cardinality(TimersOf(k)) = 1
          /\ \A t \in TimersOf(k) : t.id = messageMergeCache[k].timer
    /\ \A t \in mergeTimers : t.cacheKey \in DOMAIN messageMergeCache

\* a key whose entry grew to the cap and was flushed by it has a new entry
\* with its own timer
C38_Witness ==
    \E c \in 1..Len(pipelineCalls) :
        /\ pipelineCalls[c].via = "max"
        /\ pipelineCalls[c].key \in DOMAIN messageMergeCache
        /\ TimersOf(pipelineCalls[c].key) # {}

\* the arrival of the first event of a sequence of buffered messages
FirstArrival(messages) == inbound[messages[1].data.msgId].at

\* C37: the merge window is fixed. A step that appends an event to an open
\* entry leaves the entry's timer and its deadline as they are; the deadline
\* of an open entry is 2000 ms after the arrival of its first event and is
\* not passed while the entry is open; every pipeline call is made no later
\* than 2000 ms after the arrival of the first event it carries
C37_FixedWindow ==
    /\ [](\A k \in DOMAIN messageMergeCache :
             /\ messageMergeCache[k].startTime = FirstArrival(messageMergeCache[k].messages)
             /\ now <= messageMergeCache[k].startTime + MESSAGE_MERGE_WINDOW_MS
             /\ \A t \in TimersOf(k) :
                   t.at = messageMergeCache[k].startTime + MESSAGE_MERGE_WINDOW_MS)
    /\ [](\A c \in 1..Len(pipelineCalls) :
             pipelineCalls[c].at
                 <= FirstArrival(pipelineCalls[c].messages) + MESSAGE_MERGE_WINDOW_MS)
    /\ [][\A k \in DOMAIN messageMergeCache \cap DOMAIN messageMergeCache' :
             Len(messageMergeCache'[k].messages) > Len(messageMergeCache[k].messages)
                 => TimersOf(k)' = TimersOf(k)]_vars

\* an entry that took a second event after its first was flushed by its
\* timer 2000 ms after the first, less than 2000 ms after the second
C37_Witness ==
    \E c \in 1..Len(pipelineCalls) :
        LET call == pipelineCalls[c]
        IN /\ call.via = "timer"
           /\ Len(call.messages) >= 2
           /\ inbound[call.messages[2].data.msgId].at > FirstArrival(call.messages)
           /\ call.at = FirstArrival(call.messages) + MESSAGE_MERGE_WINDOW_MS

(***************************************************************************)
(* Throttle bookkeeping and the card registry                              *)
(***************************************************************************)
\* the cards that have throttle bookkeeping: a throttle timestamp, a handle
\* of a scheduled update, or an armed scheduled or inactivity timer
Bookkept ==
    DOMAIN cardUpdateTimestamps \cup DOMAIN cardUpdateTimeouts
        \cup { t.card : t \in { u \in cardTimers : u.kind \in {"scheduled", "inactivity"} } }

\* the cards evicted by the last terminal error of one of their updates
Evicted ==
    { calls[id].card : id \in { i \in DOMAIN calls :
                                   /\ calls[i].op = "update"
                                   /\ calls[i].pc = "rejected"
                                   /\ calls[i].status \in TerminalStatuses } }
        \ DOMAIN cardInstances

\* C36: every card that has a throttle timestamp or an armed scheduled or
\* inactivity timer is in the card registry; a card evicted after a terminal
\* error of an update has no timestamp and no timer left
C36_BookkeepingWithinRegistry == Bookkept \subseteq DOMAIN cardInstances

\* the same for the sweep of the cache alone: what cleanupCardCache removes
\* from the registry it removes from the bookkeeping
C36_EvictedOnlyOutlive == (Bookkept \ DOMAIN cardInstances) \subseteq Evicted

(***************************************************************************)
(* Pipeline executions in flight                                           *)
(*                                                                         *)
(* processMergedMessages awaits handleDingTalkMessageOriginal, which awaits *)
(* its downloads and the dispatch of the reply. While it waits, the event  *)
(* loop takes further events and runs the timers that are due.             *)
(***************************************************************************)
\* bound: inbound events in one behaviour of this model
MaxOverlapEvents == 3

OverlapInbound(k, blank) ==
    /\ nextMsgId <= MaxOverlapEvents
    /\ handleDingTalkMessage(k, blank)

\* the promise of pipeline call c settles: handleDingTalkMessageOriginal has
\* returned or thrown
PipelineReturns(c) ==
    /\ c \in 1..Len(pipelineCalls)
    /\ c \notin pipelineDone
    /\ pipelineDone' = pipelineDone \cup {c}
    /\ UNCHANGED <<now, nextTimer, messageMergeCache, mergeTimers, mergeSweepAt,
                   nextMsgId, inbound, pipelineCalls, cardVars, chanVars>>

OverlapNext ==
    \/ \E k \in KeysOf(nextMsgId), b \in BlanksOf(nextMsgId) : OverlapInbound(k, b)
    \/ \E t \in mergeTimers : MergeTimerFires(t)
    \/ MergeSweep
    \/ \E c \in 1..Len(pipelineCalls) : PipelineReturns(c)
    \/ MergeTick
    \/ MergeIdle

OverlapSpec == Init /\ [][OverlapNext]_vars

\* the pipeline executions of a key that have not settled
InFlight(k) ==
    { c \in 1..Len(pipelineCalls) : pipelineCalls[c].key = k /\ c \notin pipelineDone }

\* C35: for each key at most one pipeline execution is in flight: no flush
\* of a key starts an execution while an earlier execution of that key has
\* not settled
C35_OneInFlightPerKey == \A k \in Keys : Cardinality(InFlight(k)) <= 1

\* the executions in flight never outnumber the flushes, and an execution
\* that has settled stays settled
C35_InFlightAreCalls ==
    [][ /\ pipelineDone \subseteq pipelineDone'
        /\ pipelineDone' \subseteq 1..Len(pipelineCalls') ]_vars

====
